----------------------------- MODULE OrderFlow -----------------------------
(***************************************************************************)
(* The life of an order, as the leading PedidosRust server runs it: the    *)
(* ConnectionManager actor with the customers, riders, restaurants and the *)
(* payment system connected to it.                                         *)
(*                                                                         *)
(* The ConnectionManager takes messages from one FIFO mailbox.  A line a   *)
(* client writes is in the mailbox from the moment it is written (its time *)
(* on the wire and in the ClientConnection actor is absorbed by the time   *)
(* the client takes to act); a line the server writes waits in the outbox  *)
(* of the client until its actor takes it.  A client process may be killed *)
(* and started again; every start opens a new session, and a line posted   *)
(* on the address of an older session is dropped, as do_send to a stopped  *)
(* actor is.                                                               *)
(*                                                                         *)
(* Left out: coordinates, push notifications, and the messages to the next *)
(* server peer.  The n-th order of a customer costs n, so that a price     *)
(* names the order it belongs to.                                          *)
(*                                                                         *)
(* An operator X_Y next to X is a faulty X: the README says which property *)
(* each of them breaks.  No specification uses them.                       *)
(***************************************************************************)
EXTENDS Naturals, Sequences, FiniteSets, SequencesExt

CONSTANTS Customers, Riders, Restaurants,
          Gateway,           \* the one payment system
          Nearby,            \* the restaurants within reach of each customer
          NRidersToNotify,   \* N_RIDERS_TO_NOTIFY
          MaxOrders,         \* bound: orders a customer places
          MaxSessions,       \* bound: times each client process is started
          None

Clients == Customers \cup Riders \cup Restaurants \cup {Gateway}
Prices  == 1 .. MaxOrders
Orders  == [customer : Customers, price : Prices]

(* The key of an entry is a customer, or a rider: see the acceptance of an *)
(* offer.  Its rider is None until one is assigned.                        *)
OrderData == [customer_id : Customers, order_price : 0 .. MaxOrders,
              rider_id : Riders \cup {None}]
Entries == OrderData \cup {None}

ASSUME OrderFlowAssumption ==
    /\ MaxOrders \in Nat /\ NRidersToNotify \in Nat \ {0}
    /\ MaxSessions \in [Clients -> Nat]
    /\ Nearby \in [Customers -> SUBSET Restaurants]
    /\ Customers \cap Riders = {} /\ Customers \cap Restaurants = {}
    /\ Riders \cap Restaurants = {}
    /\ Gateway \notin Customers \cup Riders \cup Restaurants
    /\ None \notin Customers \cup Riders \cup Nat \cup OrderData

VARIABLES
    (* the ConnectionManager *)
    mailbox,
    customers,                  \* the order_price of each registered customer,
                                \* 0 before its first order
    customer_connections, rider_connections, restaurant_connections,
    payment_system,             \* in these four: the session, 0 when absent
    pending_orders,             \* of each restaurant
    orders_in_process,
    pending_delivery_requests,
    (* the clients *)
    session, outbox, placed, prompts, cooking, busy, customer_id,
    (* history, read by the properties only *)
    log, assigned

connections == <<customer_connections, rider_connections,
                 restaurant_connections, payment_system>>
orderVars   == <<customers, pending_orders, orders_in_process>>
clientVars  == <<session, placed, prompts, busy, customer_id>>
history     == <<log, assigned>>
vars == <<mailbox, connections, orderVars, pending_delivery_requests,
          outbox, cooking, clientVars, history>>

Message ==
    [type : {"RegisterCustomer"}, customer : Customers, session : Nat]
    \cup [type : {"SendRestaurantList", "OrderReady", "OrderCancelled",
                  "FindRider"}, customer : Customers]
    \cup [type : {"AuthorizePayment", "PaymentAuthorized", "PaymentDenied",
                  "OrderRequest"},
          customer : Customers, price : Prices, restaurant : Restaurants]
    \cup [type : {"PaymentExecuted"}, customer : Customers, price : Prices]
    \cup [type : {"RegisterPaymentSystem"}, session : Nat]
    \cup [type : {"RegisterRestaurant"}, restaurant : Restaurants,
          session : Nat]
    \cup [type : {"RegisterRider"}, rider : Riders, session : Nat \ {0}]
    \cup [type : {"DeliveryOfferAccepted", "DeliveryDone"},
          customer : Customers, rider : Riders]

Line ==
    [type : {"Restaurants"}, names : SUBSET Restaurants]
    \cup [type : {"FinishDelivery", "GoToCustomerLocation"}]
    \cup [type : {"AuthorizePayment"}, customer : Customers, price : Prices,
          restaurant : Restaurants]
    \cup [type : {"ExecutePayment"}, customer : Customers, price : Prices]
    \cup [type : {"DeliveryOffer", "DeliveryOfferConfirmed"},
          customer : Customers]

Events == {"authorized", "ready", "cancelled", "refused", "charged"}

----------------------------------------------------------------------------
(* Helpers.                                                                *)

Received(t) == mailbox # <<>> /\ Head(mailbox).type = t

(* do_send of a line to the ClientConnection recorded under session s.     *)
Post(box, cl, s, line) ==
    IF s # 0 /\ s = session[cl] THEN [box EXCEPT ![cl] = Append(@, line)]
                                ELSE box

PostCustomer(c, line) == Post(outbox, c, customer_connections[c], line)

(* PrepareOrder starts a timer of random length at the restaurant, which   *)
(* absorbs the time the line spends on the wire.                           *)
Prepare(x, s, os) ==
    cooking' = IF s # 0 /\ s = session[x]
               THEN [cooking EXCEPT ![x] = @ \cup os] ELSE cooking

Note(event, c, p) == log' = log \cup {<<event, c, p>>}

(* The queue is emptied as soon as one rider has a connection: the first   *)
(* of the map, the same one for every request.  FindRider queues none but  *)
(* known customers, so the lookup of the customer does not fail here.      *)
process_pending_requests(box, riders) ==
    LET known == {r \in Riders : riders[r] # 0}
        offers == [i \in 1 .. Len(pending_delivery_requests) |->
                      [type |-> "DeliveryOffer",
                       customer |-> pending_delivery_requests[i]]]
    IN  IF known = {} THEN /\ outbox' = box
                           /\ UNCHANGED pending_delivery_requests
        ELSE \E r \in known :
                /\ outbox' = IF riders[r] = session[r]
                             THEN [box EXCEPT ![r] = @ \o offers] ELSE box
                /\ pending_delivery_requests' = <<>>

----------------------------------------------------------------------------
Init ==
    /\ mailbox = <<>>
    /\ customers = [c \in Customers |-> None]
    /\ customer_connections = [c \in Customers |-> 0]
    /\ rider_connections = [r \in Riders |-> 0]
    /\ restaurant_connections = [x \in Restaurants |-> 0]
    /\ payment_system = 0
    /\ pending_orders = [x \in Restaurants |-> {}]
    /\ orders_in_process = [k \in Customers \cup Riders |-> None]
    /\ pending_delivery_requests = <<>>
    /\ session = [cl \in Clients |-> 0]
    /\ outbox = [cl \in Clients |-> <<>>]
    /\ placed = [c \in Customers |-> 0]
    /\ prompts = [c \in Customers |-> 0]
    /\ cooking = [x \in Restaurants |-> {}]
    /\ busy = [r \in Riders |-> FALSE]
    /\ customer_id = [r \in Riders |-> None]
    /\ log = {}
    /\ assigned = {}

----------------------------------------------------------------------------
(* The client processes.                                                   *)

(* A process is started, or killed and started again: Start, and the line  *)
(* that makes its new ClientConnection register it.                        *)
Restarted(cl, registration) ==
    /\ session[cl] < MaxSessions[cl]
    /\ session' = [session EXCEPT ![cl] = @ + 1]
    /\ outbox' = [outbox EXCEPT ![cl] = <<>>]
    /\ mailbox' = Append(mailbox, registration)
    /\ UNCHANGED <<connections, orderVars, pending_delivery_requests, placed,
                   history>>

StartCustomer(c) ==
    /\ Restarted(c, [type |-> "RegisterCustomer", customer |-> c,
                     session |-> session[c] + 1])
    /\ prompts' = [prompts EXCEPT ![c] = 0]
    /\ UNCHANGED <<cooking, busy, customer_id>>

StartRider(r) ==
    /\ Restarted(r, [type |-> "RegisterRider", rider |-> r,
                     session |-> session[r] + 1])
    /\ busy' = [busy EXCEPT ![r] = FALSE]
    /\ customer_id' = [customer_id EXCEPT ![r] = None]
    /\ UNCHANGED <<cooking, prompts>>

StartRestaurant(x) ==
    /\ Restarted(x, [type |-> "RegisterRestaurant", restaurant |-> x,
                     session |-> session[x] + 1])
    /\ cooking' = [cooking EXCEPT ![x] = {}]
    /\ UNCHANGED <<prompts, busy, customer_id>>

StartPaymentSystem ==
    /\ Restarted(Gateway, [type |-> "RegisterPaymentSystem",
                           session |-> session[Gateway] + 1])
    /\ UNCHANGED <<cooking, prompts, busy, customer_id>>

(* A client takes the next line of its outbox, if it is of type t.         *)
Taken(cl, t) == outbox[cl] # <<>> /\ Head(outbox[cl]).type = t

managerVars == <<connections, orderVars, pending_delivery_requests>>

(* The list of restaurants arrives: the customer orders from one of them.  *)
ChooseRestaurant(c) ==
    /\ Taken(c, "Restaurants")
    /\ placed[c] < MaxOrders
    /\ \E x \in Head(outbox[c]).names :
          mailbox' = Append(mailbox, [type |-> "AuthorizePayment",
              customer |-> c, price |-> placed[c] + 1, restaurant |-> x])
    /\ placed' = [placed EXCEPT ![c] = @ + 1]
    /\ outbox' = [outbox EXCEPT ![c] = Tail(@)]
    /\ UNCHANGED <<managerVars, session, prompts, cooking, busy, customer_id,
                   history>>

(* An empty list, or a delivery that is over: the customer is asked        *)
(* whether to order again.                                                 *)
FinishDelivery(c) ==
    /\ \/ Taken(c, "FinishDelivery")
       \/ Taken(c, "Restaurants") /\ Head(outbox[c]).names = {}
    /\ prompts' = [prompts EXCEPT ![c] = @ + 1]
    /\ outbox' = [outbox EXCEPT ![c] = Tail(@)]
    /\ UNCHANGED <<managerVars, mailbox, session, placed, cooking, busy,
                   customer_id, history>>

GetRestaurants(c) ==
    /\ prompts[c] > 0
    /\ placed[c] < MaxOrders
    /\ prompts' = [prompts EXCEPT ![c] = @ - 1]
    /\ mailbox' = Append(mailbox, [type |-> "RegisterCustomer",
                                   customer |-> c, session |-> session[c]])
    /\ UNCHANGED <<managerVars, outbox, session, placed, cooking, busy,
                   customer_id, history>>

(* The payment system authorizes or denies, at random.                     *)
ExecuteAutorization ==
    /\ Taken(Gateway, "AuthorizePayment")
    /\ LET m == Head(outbox[Gateway])
       IN  \E answer \in {"PaymentAuthorized", "PaymentDenied"} :
             /\ mailbox' = Append(mailbox, [m EXCEPT !.type = answer])
             /\ IF answer = "PaymentAuthorized"
                THEN Note("authorized", m.customer, m.price)
                ELSE UNCHANGED log
    /\ outbox' = [outbox EXCEPT ![Gateway] = Tail(@)]
    /\ UNCHANGED <<managerVars, cooking, clientVars, assigned>>

ExecutePayment ==
    /\ Taken(Gateway, "ExecutePayment")
    /\ LET m == Head(outbox[Gateway])
       IN  /\ mailbox' = Append(mailbox, [m EXCEPT !.type = "PaymentExecuted"])
           /\ Note("charged", m.customer, m.price)
    /\ outbox' = [outbox EXCEPT ![Gateway] = Tail(@)]
    /\ UNCHANGED <<managerVars, cooking, clientVars, assigned>>

(* The timer of an order fires: it is ready, or out of stock, at random.   *)
ContinueOrder(x) ==
    \E o \in cooking[x], answer \in {"OrderReady", "OrderCancelled"} :
        /\ cooking' = [cooking EXCEPT ![x] = @ \ {o}]
        /\ mailbox' = Append(mailbox, [type |-> answer,
                                       customer |-> o.customer])
        /\ Note(IF answer = "OrderReady" THEN "ready" ELSE "cancelled",
                o.customer, o.price)
        /\ UNCHANGED <<managerVars, outbox, clientVars, assigned>>

(* A rider sleeps over an offer and then looks at busy; a declined offer   *)
(* is not answered.                                                        *)
DeliveryOffer(r) ==
    /\ Taken(r, "DeliveryOffer")
    /\ \/ UNCHANGED mailbox
       \/ /\ ~busy[r]
          /\ mailbox' = Append(mailbox, [type |-> "DeliveryOfferAccepted",
                 customer |-> Head(outbox[r]).customer, rider |-> r])
    /\ outbox' = [outbox EXCEPT ![r] = Tail(@)]
    /\ UNCHANGED <<managerVars, cooking, clientVars, history>>

IsGoTo(line) == line.type = "GoToCustomerLocation"

(* The rider notifies itself to go.  Its actor moves lines from the socket *)
(* to its mailbox only when the mailbox is empty, as many as have come, so *)
(* the note lands behind the lines moved together with the confirmation:   *)
(* anywhere, unless an earlier note shows where the mailbox ends.          *)
DeliveryOfferConfirmed(r) ==
    /\ Taken(r, "DeliveryOfferConfirmed")
    /\ busy' = [busy EXCEPT ![r] = TRUE]
    /\ customer_id' = [customer_id EXCEPT ![r] = Head(outbox[r]).customer]
    /\ LET rest == Tail(outbox[r])
           notes == {j \in 1 .. Len(rest) : IsGoTo(rest[j])}
       IN  \E i \in 1 .. Len(rest) + 1 :
             /\ \A j \in notes : j < i
             /\ notes # {} => i - 1 \in notes
             /\ outbox' = [outbox EXCEPT ![r] =
                    InsertAt(rest, i, [type |-> "GoToCustomerLocation"])]
    /\ UNCHANGED <<managerVars, mailbox, cooking, session, placed, prompts,
                   history>>

(* customer_location is known exactly while the rider is busy.             *)
GoToCustomerLocation(r) ==
    /\ Taken(r, "GoToCustomerLocation")
    /\ IF busy[r]
       THEN /\ busy' = [busy EXCEPT ![r] = FALSE]
            /\ mailbox' = Append(mailbox, [type |-> "DeliveryDone",
                   customer |-> customer_id[r], rider |-> r])
       ELSE UNCHANGED <<busy, mailbox>>
    /\ outbox' = [outbox EXCEPT ![r] = Tail(@)]
    /\ UNCHANGED <<managerVars, cooking, session, placed, prompts,
                   customer_id, history>>

----------------------------------------------------------------------------
(* The handlers of the ConnectionManager, m being the message at the head  *)
(* of its mailbox.                                                         *)

(* The ClientConnection waits for the registration before it asks for the  *)
(* list.                                                                   *)
HandleRegisterCustomer(m) ==
    /\ m.type = "RegisterCustomer"
    /\ customers' = [customers EXCEPT ![m.customer] = IF @ = None THEN 0 ELSE @]
    /\ customer_connections' =
           [customer_connections EXCEPT ![m.customer] = m.session]
    /\ process_pending_requests(outbox, rider_connections)
    /\ mailbox' = Append(Tail(mailbox), [type |-> "SendRestaurantList",
                                         customer |-> m.customer])
    /\ UNCHANGED <<rider_connections, restaurant_connections, payment_system,
                   pending_orders, orders_in_process, cooking, history>>

HandleRegisterRider_QueueLeft(m) ==
    /\ m.type = "RegisterRider"
    /\ rider_connections' = [rider_connections EXCEPT ![m.rider] = m.session]
    /\ mailbox' = Tail(mailbox)
    /\ UNCHANGED <<customer_connections, restaurant_connections,
                   payment_system, orderVars, pending_delivery_requests,
                   outbox, cooking, history>>

HandleRegisterRider(m) ==
    /\ m.type = "RegisterRider"
    /\ rider_connections' = [rider_connections EXCEPT ![m.rider] = m.session]
    /\ process_pending_requests(outbox, rider_connections')
    /\ mailbox' = Tail(mailbox)
    /\ UNCHANGED <<customer_connections, restaurant_connections,
                   payment_system, orderVars, cooking, history>>

HandleRegisterRestaurant_NotResent(m) ==
    /\ m.type = "RegisterRestaurant"
    /\ restaurant_connections' =
           [restaurant_connections EXCEPT ![m.restaurant] = m.session]
    /\ process_pending_requests(outbox, rider_connections)
    /\ mailbox' = Tail(mailbox)
    /\ UNCHANGED <<customer_connections, rider_connections, payment_system,
                   orderVars, cooking, history>>

(* The restaurant is sent again what it had still to prepare.              *)
HandleRegisterRestaurant(m) ==
    /\ m.type = "RegisterRestaurant"
    /\ Prepare(m.restaurant, m.session, pending_orders[m.restaurant])
    /\ restaurant_connections' =
           [restaurant_connections EXCEPT ![m.restaurant] = m.session]
    /\ process_pending_requests(outbox, rider_connections)
    /\ mailbox' = Tail(mailbox)
    /\ UNCHANGED <<customer_connections, rider_connections, payment_system,
                   orderVars, history>>

HandleRegisterPaymentSystem(m) ==
    /\ m.type = "RegisterPaymentSystem"
    /\ payment_system' = m.session
    /\ process_pending_requests(outbox, rider_connections)
    /\ mailbox' = Tail(mailbox)
    /\ UNCHANGED <<customer_connections, rider_connections,
                   restaurant_connections, orderVars, cooking, history>>

SendRestaurantList(m) ==
    /\ m.type = "SendRestaurantList"
    /\ process_pending_requests(
           IF customers[m.customer] = None THEN outbox
           ELSE PostCustomer(m.customer, [type |-> "Restaurants", names |->
                    {x \in Nearby[m.customer] : restaurant_connections[x] # 0}]),
           rider_connections)
    /\ mailbox' = Tail(mailbox)
    /\ UNCHANGED <<connections, orderVars, cooking, history>>

AuthorizePayment(m) ==
    /\ m.type = "AuthorizePayment"
    /\ IF payment_system # 0
       THEN /\ process_pending_requests(
                   Post(outbox, Gateway, payment_system, m), rider_connections)
            /\ UNCHANGED log
       ELSE /\ process_pending_requests(
                   PostCustomer(m.customer, [type |-> "FinishDelivery"]),
                   rider_connections)
            /\ Note("refused", m.customer, m.price)
    /\ mailbox' = Tail(mailbox)
    /\ UNCHANGED <<connections, orderVars, cooking, assigned>>

(* The order goes on as a message of the manager to itself.                *)
PaymentAuthorized(m) ==
    /\ m.type = "PaymentAuthorized"
    /\ process_pending_requests(outbox, rider_connections)
    /\ mailbox' = IF customer_connections[m.customer] # 0
                  THEN Append(Tail(mailbox), [m EXCEPT !.type = "OrderRequest"])
                  ELSE Tail(mailbox)
    /\ UNCHANGED <<connections, orderVars, cooking, history>>

PaymentDenied_GoesOn(m) ==
    /\ m.type = "PaymentDenied"
    /\ PaymentAuthorized([m EXCEPT !.type = "PaymentAuthorized"])

PaymentDenied_Unreported(m) ==
    /\ m.type = "PaymentDenied"
    /\ process_pending_requests(outbox, rider_connections)
    /\ Note("refused", m.customer, m.price)
    /\ mailbox' = Tail(mailbox)
    /\ UNCHANGED <<connections, orderVars, cooking, assigned>>

PaymentDenied(m) ==
    /\ m.type = "PaymentDenied"
    /\ process_pending_requests(
           PostCustomer(m.customer, [type |-> "FinishDelivery"]),
           rider_connections)
    /\ Note("refused", m.customer, m.price)
    /\ mailbox' = Tail(mailbox)
    /\ UNCHANGED <<connections, orderVars, cooking, assigned>>

NewOrder_StalePrice(m) ==
    [customer_id |-> m.customer, order_price |-> customers[m.customer],
     rider_id |-> None]

NewOrder(m) ==
    [customer_id |-> m.customer, order_price |-> m.price, rider_id |-> None]

(* An unknown customer: the handler returns before the pending requests.   *)
OrderRequest(m) ==
    /\ m.type = "OrderRequest"
    /\ IF customers[m.customer] = None
       THEN UNCHANGED <<orderVars, outbox, pending_delivery_requests, cooking>>
       ELSE /\ customers' = [customers EXCEPT ![m.customer] = m.price]
            /\ orders_in_process' =
                   [orders_in_process EXCEPT ![m.customer] = NewOrder(m)]
            /\ pending_orders' =
                   IF restaurant_connections[m.restaurant] = 0
                   THEN pending_orders
                   ELSE [pending_orders EXCEPT ![m.restaurant] =
                       @ \cup {[customer |-> m.customer, price |-> m.price]}]
            /\ Prepare(m.restaurant, restaurant_connections[m.restaurant],
                       {[customer |-> m.customer, price |-> m.price]})
            /\ process_pending_requests(outbox, rider_connections)
    /\ mailbox' = Tail(mailbox)
    /\ UNCHANGED <<connections, history>>

OrderReady(m) ==
    /\ m.type = "OrderReady"
    /\ IF customer_connections[m.customer] = 0
       THEN mailbox' = Tail(mailbox) /\ UNCHANGED pending_orders
       ELSE /\ pending_orders' = [x \in Restaurants |->
                   {o \in pending_orders[x] : o.customer # m.customer}]
            /\ mailbox' = Append(Tail(mailbox), [type |-> "FindRider",
                                                 customer |-> m.customer])
    /\ UNCHANGED <<connections, customers, orders_in_process, outbox,
                   pending_delivery_requests, cooking, history>>

OrderCancelled(m) ==
    /\ m.type = "OrderCancelled"
    /\ IF customer_connections[m.customer] = 0
       THEN UNCHANGED <<orders_in_process, outbox>>
       ELSE /\ orders_in_process' =
                   [orders_in_process EXCEPT ![m.customer] = None]
            /\ outbox' = PostCustomer(m.customer, [type |-> "FinishDelivery"])
    /\ mailbox' = Tail(mailbox)
    /\ UNCHANGED <<connections, customers, pending_orders,
                   pending_delivery_requests, cooking, history>>

(* closest_riders: with coordinates left out, any NRidersToNotify of the   *)
(* connected riders, or all of them when they are fewer.                   *)
closest_riders ==
    LET known == {r \in Riders : rider_connections[r] # 0}
    IN  {S \in SUBSET known :
            IF Cardinality(known) <= NRidersToNotify THEN S = known
            ELSE Cardinality(S) = NRidersToNotify}

FindRider(m) ==
    /\ m.type = "FindRider"
    /\ IF customers[m.customer] = None
       THEN UNCHANGED <<outbox, pending_delivery_requests>>
       ELSE \E closest \in closest_riders :
              IF closest = {}
              THEN /\ pending_delivery_requests' =
                          Append(pending_delivery_requests, m.customer)
                   /\ UNCHANGED outbox
              ELSE /\ outbox' = [cl \in Clients |->
                        IF cl \in closest /\ rider_connections[cl] = session[cl]
                        THEN Append(outbox[cl], [type |-> "DeliveryOffer",
                                                 customer |-> m.customer])
                        ELSE outbox[cl]]
                   /\ UNCHANGED pending_delivery_requests
    /\ mailbox' = Tail(mailbox)
    /\ UNCHANGED <<connections, orderVars, cooking, history>>

Assignable_Again(order) == order # None

Assignable(order) == order # None /\ order.rider_id = None

(* Whatever becomes of the offer, an entry is written under the key of the *)
(* rider; the order, under the key of the customer, gets the rider if it   *)
(* is there and has none yet.                                              *)
DeliveryOfferAccepted(m) ==
    /\ m.type = "DeliveryOfferAccepted"
    /\ LET c == m.customer
           order == orders_in_process[c]
           noted == IF customer_connections[c] # 0 /\ customers[c] # None
                    THEN [orders_in_process EXCEPT ![m.rider] =
                             [customer_id |-> c, order_price |-> customers[c],
                              rider_id |-> m.rider]]
                    ELSE orders_in_process
       IN  IF Assignable(order)
           THEN /\ orders_in_process' =
                       [noted EXCEPT ![c] = [order EXCEPT !.rider_id = m.rider]]
                /\ outbox' = Post(outbox, m.rider, rider_connections[m.rider],
                       [type |-> "DeliveryOfferConfirmed", customer |-> c])
                /\ assigned' = assigned \cup {<<m.rider, c, order.order_price>>}
           ELSE orders_in_process' = noted /\ UNCHANGED <<outbox, assigned>>
    /\ mailbox' = Tail(mailbox)
    /\ UNCHANGED <<connections, customers, pending_orders,
                   pending_delivery_requests, cooking, log>>

DeliveryDone_OrderKept(m) ==
    /\ m.type = "DeliveryDone"
    /\ LET order == orders_in_process[m.customer]
       IN  outbox' = IF order = None THEN outbox
                     ELSE Post(outbox, Gateway, payment_system,
                               [type |-> "ExecutePayment",
                                customer |-> m.customer,
                                price |-> order.order_price])
    /\ mailbox' = Tail(mailbox)
    /\ UNCHANGED <<connections, orderVars, pending_delivery_requests, cooking,
                   history>>

(* The order is removed before it is known whether it can be charged.      *)
DeliveryDone(m) ==
    /\ m.type = "DeliveryDone"
    /\ LET order == orders_in_process[m.customer]
       IN  IF order = None
           THEN UNCHANGED <<orders_in_process, outbox>>
           ELSE /\ orders_in_process' =
                       [orders_in_process EXCEPT ![m.customer] = None]
                /\ outbox' = Post(outbox, Gateway, payment_system,
                       [type |-> "ExecutePayment", customer |-> m.customer,
                        price |-> order.order_price])
    /\ mailbox' = Tail(mailbox)
    /\ UNCHANGED <<connections, customers, pending_orders,
                   pending_delivery_requests, cooking, history>>

PaymentExecuted(m) ==
    /\ m.type = "PaymentExecuted"
    /\ IF customer_connections[m.customer] = 0
       THEN /\ UNCHANGED orders_in_process
            /\ process_pending_requests(outbox, rider_connections)
       ELSE /\ orders_in_process' =
                   [orders_in_process EXCEPT ![m.customer] = None]
            /\ process_pending_requests(
                   PostCustomer(m.customer, [type |-> "FinishDelivery"]),
                   rider_connections)
    /\ mailbox' = Tail(mailbox)
    /\ UNCHANGED <<connections, customers, pending_orders, cooking, history>>

Handle ==
    /\ mailbox # <<>>
    /\ LET m == Head(mailbox)
       IN  \/ HandleRegisterCustomer(m)      \/ HandleRegisterRider(m)
           \/ HandleRegisterRestaurant(m)    \/ HandleRegisterPaymentSystem(m)
           \/ SendRestaurantList(m)          \/ AuthorizePayment(m)
           \/ PaymentAuthorized(m)           \/ PaymentDenied(m)
           \/ OrderRequest(m)                \/ OrderReady(m)
           \/ OrderCancelled(m)              \/ FindRider(m)
           \/ DeliveryOfferAccepted(m)       \/ DeliveryDone(m)
           \/ PaymentExecuted(m)
    /\ UNCHANGED clientVars

Customer(c) == ChooseRestaurant(c) \/ FinishDelivery(c)
Rider(r)    == DeliveryOffer(r) \/ DeliveryOfferConfirmed(r)
                  \/ GoToCustomerLocation(r)
PaymentSystem == ExecuteAutorization \/ ExecutePayment

Next ==
    \/ Handle
    \/ \E c \in Customers : StartCustomer(c) \/ Customer(c) \/ GetRestaurants(c)
    \/ \E r \in Riders : StartRider(r) \/ Rider(r)
    \/ \E x \in Restaurants : StartRestaurant(x) \/ ContinueOrder(x)
    \/ StartPaymentSystem
    \/ PaymentSystem

Spec == Init /\ [][Next]_vars

(* Every actor goes on taking its messages, and a timer that was set fires.*)
(* No fairness on what people decide: to start or kill a process, to order *)
(* again.                                                                  *)
Fairness ==
    /\ WF_vars(Handle)
    /\ \A c \in Customers : WF_vars(Customer(c))
    /\ \A r \in Riders : WF_vars(Rider(r))
    /\ \A x \in Restaurants : WF_vars(ContinueOrder(x))
    /\ WF_vars(PaymentSystem)

FairSpec == Spec /\ Fairness

----------------------------------------------------------------------------
(* The types of the state.                                                 *)
TypeOK ==
    /\ mailbox \in Seq(Message)
    /\ customers \in [Customers -> Prices \cup {0, None}]
    /\ customer_connections \in [Customers -> Nat]
    /\ rider_connections \in [Riders -> Nat]
    /\ restaurant_connections \in [Restaurants -> Nat]
    /\ payment_system \in Nat
    /\ pending_orders \in [Restaurants -> SUBSET Orders]
    /\ orders_in_process \in [Customers \cup Riders -> Entries]
    /\ pending_delivery_requests \in Seq(Customers)
    /\ session \in [Clients -> Nat]
    /\ outbox \in [Clients -> Seq(Line)]
    /\ placed \in [Customers -> 0 .. MaxOrders]
    /\ prompts \in [Customers -> Nat]
    /\ cooking \in [Restaurants -> SUBSET Orders]
    /\ busy \in [Riders -> BOOLEAN]
    /\ customer_id \in [Riders -> Customers \cup {None}]
    /\ log \subseteq Events \X Customers \X Prices
    /\ assigned \subseteq Riders \X Customers \X Prices

----------------------------------------------------------------------------
(* Safety.                                                                 *)

(* A customer is charged for no order the payment system did not authorize,*)
(* though the price travels through the order entry, from a message of the *)
(* manager to itself until the rider reports the delivery.                 *)
ChargedWasAuthorized ==
    \A c \in Customers, p \in Prices :
        <<"charged", c, p>> \in log => <<"authorized", c, p>> \in log

(* Offers for one order go to several riders, who accept independently: at *)
(* most one of them is ever given the order.                               *)
OneRiderPerOrder ==
    \A a, b \in assigned : a[2] = b[2] /\ a[3] = b[3] => a[1] = b[1]

(* A delivery waits in the queue only while no rider is connected: FindRider*)
(* queues, every registration drains.                                      *)
WaitingMeansNoRider ==
    pending_delivery_requests # <<>> =>
        \A r \in Riders : rider_connections[r] = 0

(* An order that was charged or refused is not in process, so no late      *)
(* acceptance, cancellation or delivery report can act on it again.        *)
SettledOrderIsGone ==
    \A c \in Customers, p \in Prices :
        /\ orders_in_process[c] # None
        /\ orders_in_process[c].order_price = p
        => /\ <<"charged", c, p>> \notin log
           /\ <<"refused", c, p>> \notin log

(* The rider of an order is the one that was chosen first, until the order *)
(* leaves the table (README: the final assignment is for the first one to  *)
(* accept).                                                                *)
AssignmentIsFinal ==
    [][\A c \in Customers :
         LET old == orders_in_process[c]
             new == orders_in_process'[c]
         IN  /\ old # None /\ new # None
             /\ old.rider_id # None /\ new.order_price = old.order_price
             => new.rider_id = old.rider_id]_vars

----------------------------------------------------------------------------
(* Liveness.                                                               *)

(* Every order a customer places is refused, cancelled or cooked, even if  *)
(* restaurants are killed and started again: what they lose, the manager   *)
(* sends them again when they register.                                    *)
OrderIsAnswered ==
    \A c \in Customers, p \in Prices :
        placed[c] >= p ~>
            \E e \in {"refused", "cancelled", "ready"} : <<e, c, p>> \in log

(* A customer whose order is over gets to order again: the end of the order*)
(* reaches the prompt of the customer on each of its three ways out.       *)
CustomerIsReleased ==
    \A c \in Customers, p \in Prices :
        /\ placed[c] = p
        /\ \E e \in {"refused", "cancelled", "charged"} : <<e, c, p>> \in log
        ~> prompts[c] > 0 \/ placed[c] > p

----------------------------------------------------------------------------
(* What the documents say and the code does not do.                        *)

Queued(c) == \E i \in 1 .. Len(pending_delivery_requests) :
                 pending_delivery_requests[i] = c

(* connection_manager.rs: a request leaves the queue when it is assigned,  *)
(* so that no delivery request is lost.  A request that was queued stays   *)
(* there, or its order gets a rider or is over.                            *)
NoDeliveryRequestLost ==
    \A c \in Customers :
        [](Queued(c) => \/ []Queued(c)
                        \/ <>(\/ orders_in_process[c] = None
                              \/ orders_in_process[c].rider_id # None))

(* README: once an order is ready it is offered to riders, and the first   *)
(* one to accept gets it.  So an assigned order is a ready one.            *)
AssignedOnlyWhenReady ==
    \A a \in assigned : <<"ready", a[2], a[3]>> \in log
=============================================================================
