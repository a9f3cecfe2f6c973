-------------------------- MODULE OrderFlowProofs --------------------------
(***************************************************************************)
(* Theorems about OrderFlow, for any number of clients and orders and any  *)
(* pattern of restarts.                                                    *)
(***************************************************************************)
EXTENDS OrderFlow, FiniteSetTheorems, TLAPS

Boxes == [Clients -> Seq(Line)]

(* What a message of each type carries.                                    *)
LEMMA MessageFields ==
    ASSUME NEW m \in Message
    PROVE  /\ m.type = "RegisterCustomer" => m.customer \in Customers /\ m.session \in Nat
           /\ m.type \in {"SendRestaurantList", "OrderReady", "OrderCancelled", "FindRider"}
                => m.customer \in Customers
           /\ m.type \in {"AuthorizePayment", "PaymentAuthorized", "PaymentDenied", "OrderRequest"}
                => m \in [type : {"AuthorizePayment", "PaymentAuthorized", "PaymentDenied", "OrderRequest"},
                          customer : Customers, price : Prices, restaurant : Restaurants]
           /\ m.type = "PaymentExecuted" => m.customer \in Customers /\ m.price \in Prices
           /\ m.type = "RegisterPaymentSystem" => m.session \in Nat
           /\ m.type = "RegisterRestaurant" => m.restaurant \in Restaurants /\ m.session \in Nat
           /\ m.type = "RegisterRider" => m.rider \in Riders /\ m.session \in Nat \ {0}
           /\ m.type \in {"DeliveryOfferAccepted", "DeliveryDone"}
                => m.customer \in Customers /\ m.rider \in Riders
BY DEF Message

(* The fields of a line, by its type.                                      *)
LEMMA LineFields ==
    ASSUME NEW l \in Line
    PROVE  /\ l.type = "Restaurants" => l.names \subseteq Restaurants
           /\ l.type = "AuthorizePayment"
                => l \in [type : {"AuthorizePayment"}, customer : Customers, price : Prices, restaurant : Restaurants]
           /\ l.type = "ExecutePayment"
                => l \in [type : {"ExecutePayment"}, customer : Customers, price : Prices]
           /\ l.type \in {"DeliveryOffer", "DeliveryOfferConfirmed"} => l.customer \in Customers
BY DEF Line

(* Posting a line keeps the outboxes sequences of lines.                   *)
LEMMA PostType ==
    ASSUME NEW box \in Boxes, NEW cl \in Clients, NEW s, NEW line \in Line
    PROVE  Post(box, cl, s, line) \in Boxes
BY DEF Post, Boxes

(* process_pending_requests keeps the queue and the lines typed.           *)
LEMMA ProcessType ==
    ASSUME NEW box \in Boxes, NEW riders \in [Riders -> Nat],
           pending_delivery_requests \in Seq(Customers),
           process_pending_requests(box, riders)
    PROVE  outbox' \in Boxes /\ pending_delivery_requests' \in Seq(Customers)
<1> DEFINE known == {r \in Riders : riders[r] # 0}
           offers == [i \in 1 .. Len(pending_delivery_requests) |->
                        [type |-> "DeliveryOffer", customer |-> pending_delivery_requests[i]]]
<1>1. CASE known = {}
  BY <1>1 DEF process_pending_requests
<1>2. CASE known # {}
  <2>1. offers \in Seq(Line)
    <3>1. \A i \in 1 .. Len(pending_delivery_requests) : pending_delivery_requests[i] \in Customers
      OBVIOUS
    <3>2. \A i \in 1 .. Len(pending_delivery_requests) :
            [type |-> "DeliveryOffer", customer |-> pending_delivery_requests[i]] \in Line
      BY <3>1 DEF Line
    <3> QED BY <3>2
  <2>2. PICK r \in known :
           /\ outbox' = IF riders[r] = session[r]
                        THEN [box EXCEPT ![r] = @ \o offers] ELSE box
           /\ pending_delivery_requests' = <<>>
    BY <1>2 DEF process_pending_requests
  <2>3. r \in Clients /\ box[r] \in Seq(Line)
    BY DEF Boxes, Clients
  <2>4. box[r] \o offers \in Seq(Line)
    BY <2>1, <2>3
  <2>5. outbox' \in Boxes
    BY <2>2, <2>4 DEF Boxes
  <2> QED BY <2>2, <2>5
<1> QED BY <1>1, <1>2

----------------------------------------------------------------------------
(* Types.  Two facts relate the types of several variables: a busy rider   *)
(* has a customer, and an order under the key of a customer has a price.   *)
TypeInv ==
    /\ TypeOK
    /\ \A r \in Riders : busy[r] => customer_id[r] \in Customers
    /\ \A c \in Customers : orders_in_process[c] # None =>
           orders_in_process[c].order_price \in Prices

(* The leader and the clients start well typed.                            *)
LEMMA TypeInit == Init => TypeInv
BY OrderFlowAssumption
   DEF Init, TypeInv, TypeOK, Clients, Entries, Prices

(* A message appended to the mailbox.                                      *)
LEMMA MailboxAppend ==
    ASSUME NEW box \in Seq(Message), NEW m \in Message
    PROVE  Append(box, m) \in Seq(Message)
OBVIOUS

(* The steps of the clients.                                               *)
LEMMA StartStep ==
    ASSUME TypeInv, NEW cl \in Clients, NEW registration \in Message,
           Restarted(cl, registration)
    PROVE  /\ session' \in [Clients -> Nat]
           /\ outbox' \in Boxes
           /\ mailbox' \in Seq(Message)
BY MailboxAppend DEF Restarted, TypeInv, TypeOK, Boxes

(* A client takes the next line of its outbox.                             *)
LEMMA TakeLine ==
    ASSUME TypeInv, NEW cl \in Clients, outbox[cl] # <<>>
    PROVE  /\ Head(outbox[cl]) \in Line
           /\ Tail(outbox[cl]) \in Seq(Line)
           /\ [outbox EXCEPT ![cl] = Tail(@)] \in Boxes
<1>1. outbox \in Boxes /\ outbox[cl] \in Seq(Line)
  BY DEF TypeInv, TypeOK, Boxes
<1>2. Head(outbox[cl]) \in Line /\ Tail(outbox[cl]) \in Seq(Line)
  BY <1>1
<1> QED BY <1>1, <1>2 DEF Boxes

(* A connection has a number, and the next one is never zero.              *)
LEMMA SessionType ==
    ASSUME TypeInv, NEW cl \in Clients
    PROVE  session[cl] \in Nat /\ session[cl] + 1 \in Nat \ {0}
<1>1. session[cl] \in Nat
  BY DEF TypeInv, TypeOK
<1> QED BY <1>1

(* The clients and the payment system keep the types.                      *)
LEMMA ClientTypeStep ==
    ASSUME TypeInv,
           \/ \E c \in Customers : StartCustomer(c) \/ Customer(c) \/ GetRestaurants(c)
           \/ \E r \in Riders : StartRider(r) \/ Rider(r)
           \/ \E x \in Restaurants : StartRestaurant(x) \/ ContinueOrder(x)
           \/ StartPaymentSystem
           \/ PaymentSystem
    PROVE  TypeInv'
<1> USE OrderFlowAssumption
<1>1. ASSUME NEW c \in Customers, StartCustomer(c) PROVE TypeInv'
  <2>1. [type |-> "RegisterCustomer", customer |-> c, session |-> session[c] + 1] \in Message
    <3>1. c \in Clients
      BY DEF Clients
    <3> QED BY <3>1, SessionType DEF Message
  <2>2. c \in Clients
    BY DEF Clients
  <2>3. /\ session' \in [Clients -> Nat] /\ outbox' \in Boxes /\ mailbox' \in Seq(Message)
    BY <1>1, <2>1, <2>2, StartStep DEF StartCustomer
  <2> QED BY <1>1, <2>3 DEF StartCustomer, Restarted, TypeInv, TypeOK, Boxes,
        connections, orderVars, history
<1>2. ASSUME NEW c \in Customers, ChooseRestaurant(c) PROVE TypeInv'
  <2>1. /\ c \in Clients
        /\ Head(outbox[c]) \in Line
        /\ Tail(outbox[c]) \in Seq(Line)
        /\ [outbox EXCEPT ![c] = Tail(@)] \in Boxes
    <3>1. c \in Clients /\ outbox[c] # <<>>
      BY <1>2 DEF Clients, ChooseRestaurant, Taken
    <3> QED BY <3>1, TakeLine
  <2>2. Head(outbox[c]).names \subseteq Restaurants
    BY <1>2, <2>1, LineFields DEF ChooseRestaurant, Taken
  <2>3. placed[c] + 1 \in Prices
    <3>1. placed[c] \in 0 .. MaxOrders /\ MaxOrders \in Nat
      BY OrderFlowAssumption DEF TypeInv, TypeOK
    <3>2. placed[c] < MaxOrders
      BY <1>2 DEF ChooseRestaurant
    <3> QED BY <3>1, <3>2 DEF Prices
  <2>4. PICK x \in Restaurants :
          mailbox' = Append(mailbox, [type |-> "AuthorizePayment",
              customer |-> c, price |-> placed[c] + 1, restaurant |-> x])
    BY <1>2, <2>2 DEF ChooseRestaurant
  <2>5. [type |-> "AuthorizePayment", customer |-> c, price |-> placed[c] + 1,
         restaurant |-> x] \in Message
    BY <2>3 DEF Message
  <2>6. mailbox' \in Seq(Message)
    BY <2>4, <2>5, MailboxAppend DEF TypeInv, TypeOK
  <2>7. placed' \in [Customers -> 0 .. MaxOrders]
    <3>1. placed[c] + 1 \in 0 .. MaxOrders
      BY <2>3 DEF Prices
    <3>2. placed' = [placed EXCEPT ![c] = placed[c] + 1]
      BY <1>2 DEF ChooseRestaurant
    <3> QED BY <3>1, <3>2 DEF TypeInv, TypeOK
  <2>8. outbox' \in Boxes
    BY <1>2, <2>1 DEF ChooseRestaurant
  <2> QED BY <1>2, <2>6, <2>7, <2>8 DEF ChooseRestaurant, TypeInv, TypeOK, Boxes,
        managerVars, connections, orderVars, history
<1>3. ASSUME NEW c \in Customers, FinishDelivery(c) PROVE TypeInv'
  <2>1. /\ c \in Clients
        /\ Tail(outbox[c]) \in Seq(Line)
        /\ [outbox EXCEPT ![c] = Tail(@)] \in Boxes
    <3>1. c \in Clients /\ outbox[c] # <<>>
      BY <1>3 DEF Clients, FinishDelivery, Taken
    <3> QED BY <3>1, TakeLine
  <2>2. prompts' \in [Customers -> Nat]
    BY <1>3 DEF FinishDelivery, TypeInv, TypeOK
  <2>3. outbox' \in Boxes
    BY <1>3, <2>1 DEF FinishDelivery
  <2> QED BY <1>3, <2>2, <2>3 DEF FinishDelivery, TypeInv, TypeOK, Boxes,
        managerVars, connections, orderVars, history
<1>4. ASSUME NEW c \in Customers, GetRestaurants(c) PROVE TypeInv'
  <2>1. [type |-> "RegisterCustomer", customer |-> c, session |-> session[c]] \in Message
    <3>1. c \in Clients
      BY DEF Clients
    <3> QED BY <3>1, SessionType DEF Message
  <2>2. prompts' \in [Customers -> Nat] /\ mailbox' \in Seq(Message)
    BY <1>4, <2>1, MailboxAppend DEF GetRestaurants, TypeInv, TypeOK
  <2> QED BY <1>4, <2>2 DEF GetRestaurants, TypeInv, TypeOK,
        managerVars, connections, orderVars, history
<1>5. ASSUME NEW r \in Riders, StartRider(r) PROVE TypeInv'
  <2>1. [type |-> "RegisterRider", rider |-> r, session |-> session[r] + 1] \in Message
    <3>1. r \in Clients
      BY DEF Clients
    <3> QED BY <3>1, SessionType DEF Message
  <2>2. r \in Clients
    BY DEF Clients
  <2>3. /\ session' \in [Clients -> Nat] /\ outbox' \in Boxes /\ mailbox' \in Seq(Message)
    BY <1>5, <2>1, <2>2, StartStep DEF StartRider
  <2> QED BY <1>5, <2>3 DEF StartRider, Restarted, TypeInv, TypeOK, Boxes,
        connections, orderVars, history
<1>6. ASSUME NEW r \in Riders, DeliveryOffer(r) PROVE TypeInv'
  <2>1. /\ r \in Clients
        /\ Head(outbox[r]) \in Line
        /\ Tail(outbox[r]) \in Seq(Line)
        /\ [outbox EXCEPT ![r] = Tail(@)] \in Boxes
    <3>1. r \in Clients /\ outbox[r] # <<>>
      BY <1>6 DEF Clients, DeliveryOffer, Taken
    <3> QED BY <3>1, TakeLine
  <2>2. Head(outbox[r]).customer \in Customers
    BY <1>6, <2>1, LineFields DEF DeliveryOffer, Taken
  <2>3. [type |-> "DeliveryOfferAccepted", customer |-> Head(outbox[r]).customer,
         rider |-> r] \in Message
    BY <2>2 DEF Message
  <2>4. mailbox' \in Seq(Message)
    <3>1. mailbox \in Seq(Message)
      BY DEF TypeInv, TypeOK
    <3>2. CASE UNCHANGED mailbox
      BY <3>1, <3>2
    <3>3. CASE mailbox' = Append(mailbox, [type |-> "DeliveryOfferAccepted",
                 customer |-> Head(outbox[r]).customer, rider |-> r])
      BY <3>1, <3>3, <2>3, MailboxAppend
    <3> QED BY <1>6, <3>2, <3>3 DEF DeliveryOffer
  <2>5. outbox' \in Boxes
    BY <1>6, <2>1 DEF DeliveryOffer
  <2> QED BY <1>6, <2>4, <2>5 DEF DeliveryOffer, TypeInv, TypeOK, Boxes,
        managerVars, connections, orderVars, clientVars, history
<1>7. ASSUME NEW r \in Riders, DeliveryOfferConfirmed(r) PROVE TypeInv'
  <2>1. /\ r \in Clients
        /\ Head(outbox[r]) \in Line
        /\ Tail(outbox[r]) \in Seq(Line)
        /\ [outbox EXCEPT ![r] = Tail(@)] \in Boxes
    <3>1. r \in Clients /\ outbox[r] # <<>>
      BY <1>7 DEF Clients, DeliveryOfferConfirmed, Taken
    <3> QED BY <3>1, TakeLine
  <2>2. Head(outbox[r]).customer \in Customers
    BY <1>7, <2>1, LineFields DEF DeliveryOfferConfirmed, Taken
  <2>3. [type |-> "GoToCustomerLocation"] \in Line
    BY DEF Line
  <2>4. PICK i \in 1 .. Len(Tail(outbox[r])) + 1 :
          outbox' = [outbox EXCEPT ![r] = InsertAt(Tail(outbox[r]), i,
                        [type |-> "GoToCustomerLocation"])]
    BY <1>7 DEF DeliveryOfferConfirmed
  <2>5. InsertAt(Tail(outbox[r]), i, [type |-> "GoToCustomerLocation"]) \in Seq(Line)
    <3> DEFINE q == Tail(outbox[r])
    <3>1. q \in Seq(Line) /\ Len(q) \in Nat /\ i \in 1 .. Len(q) + 1
      BY <2>1
    <3> HIDE DEF q
    <3>2. SubSeq(q, 1, i - 1) \in Seq(Line) /\ SubSeq(q, i, Len(q)) \in Seq(Line)
      BY <3>1
    <3>3. InsertAt(q, i, [type |-> "GoToCustomerLocation"]) \in Seq(Line)
      BY <2>3, <3>2 DEF InsertAt
    <3> QED BY <3>3 DEF q
  <2>6. outbox' \in Boxes
    BY <2>1, <2>4, <2>5 DEF TypeInv, TypeOK, Boxes
  <2>7. /\ busy' \in [Riders -> BOOLEAN]
        /\ customer_id' \in [Riders -> Customers \cup {None}]
        /\ \A q \in Riders : busy'[q] => customer_id'[q] \in Customers
    BY <1>7, <2>2 DEF DeliveryOfferConfirmed, TypeInv, TypeOK
  <2> QED BY <1>7, <2>6, <2>7 DEF DeliveryOfferConfirmed, TypeInv, TypeOK, Boxes,
        managerVars, connections, orderVars, history
<1>8. ASSUME NEW r \in Riders, GoToCustomerLocation(r) PROVE TypeInv'
  <2>1. /\ r \in Clients
        /\ Tail(outbox[r]) \in Seq(Line)
        /\ [outbox EXCEPT ![r] = Tail(@)] \in Boxes
    <3>1. r \in Clients /\ outbox[r] # <<>>
      BY <1>8 DEF Clients, GoToCustomerLocation, Taken
    <3> QED BY <3>1, TakeLine
  <2>2. busy[r] => [type |-> "DeliveryDone", customer |-> customer_id[r], rider |-> r] \in Message
    BY DEF Message, TypeInv
  <2>3. outbox' \in Boxes
    BY <1>8, <2>1 DEF GoToCustomerLocation
  <2>4. CASE busy[r]
    <3>1. /\ busy' = [busy EXCEPT ![r] = FALSE]
          /\ mailbox' = Append(mailbox, [type |-> "DeliveryDone",
                   customer |-> customer_id[r], rider |-> r])
          /\ customer_id' = customer_id
      BY <1>8, <2>4 DEF GoToCustomerLocation
    <3>2. mailbox' \in Seq(Message)
      BY <3>1, <2>2, <2>4, MailboxAppend DEF TypeInv, TypeOK
    <3>3. busy' \in [Riders -> BOOLEAN]
      BY <3>1 DEF TypeInv, TypeOK
    <3>4. \A q \in Riders : busy'[q] => customer_id'[q] \in Customers
      BY <3>1, Zenon DEF TypeInv, TypeOK
    <3> QED BY <1>8, <2>3, <3>1, <3>2, <3>3, <3>4 DEF GoToCustomerLocation, TypeInv, TypeOK,
          Boxes, managerVars, connections, orderVars, history
  <2>5. CASE ~busy[r]
    BY <1>8, <2>3, <2>5 DEF GoToCustomerLocation, TypeInv, TypeOK, Boxes,
        managerVars, connections, orderVars, history
  <2> QED BY <2>4, <2>5
<1>9. ASSUME NEW x \in Restaurants, StartRestaurant(x) PROVE TypeInv'
  <2>1. [type |-> "RegisterRestaurant", restaurant |-> x, session |-> session[x] + 1] \in Message
    <3>1. x \in Clients
      BY DEF Clients
    <3> QED BY <3>1, SessionType DEF Message
  <2>2. x \in Clients
    BY DEF Clients
  <2>3. /\ session' \in [Clients -> Nat] /\ outbox' \in Boxes /\ mailbox' \in Seq(Message)
    BY <1>9, <2>1, <2>2, StartStep DEF StartRestaurant
  <2> QED BY <1>9, <2>3 DEF StartRestaurant, Restarted, TypeInv, TypeOK, Boxes,
        connections, orderVars, history
<1>10. ASSUME NEW x \in Restaurants, ContinueOrder(x) PROVE TypeInv'
  <2>1. PICK o \in cooking[x], answer \in {"OrderReady", "OrderCancelled"} :
          /\ cooking' = [cooking EXCEPT ![x] = @ \ {o}]
          /\ mailbox' = Append(mailbox, [type |-> answer, customer |-> o.customer])
          /\ Note(IF answer = "OrderReady" THEN "ready" ELSE "cancelled", o.customer, o.price)
          /\ UNCHANGED <<managerVars, outbox, clientVars, assigned>>
    BY <1>10 DEF ContinueOrder
  <2>2. o \in Orders
    BY DEF TypeInv, TypeOK
  <2>3. [type |-> answer, customer |-> o.customer] \in Message
    BY <2>2 DEF Message, Orders
  <2>4. mailbox' \in Seq(Message)
    BY <2>1, <2>3, MailboxAppend DEF TypeInv, TypeOK
  <2>5. log' \subseteq Events \X Customers \X Prices
    BY <2>1, <2>2 DEF Note, Events, Orders, TypeInv, TypeOK
  <2> QED BY <2>1, <2>4, <2>5 DEF TypeInv, TypeOK, managerVars, connections,
        orderVars, clientVars
<1>11. ASSUME StartPaymentSystem PROVE TypeInv'
  <2>1. [type |-> "RegisterPaymentSystem", session |-> session[Gateway] + 1] \in Message
    <3>1. Gateway \in Clients
      BY DEF Clients
    <3> QED BY <3>1, SessionType DEF Message
  <2>2. Gateway \in Clients
    BY DEF Clients
  <2>3. /\ session' \in [Clients -> Nat] /\ outbox' \in Boxes /\ mailbox' \in Seq(Message)
    BY <1>11, <2>1, <2>2, StartStep DEF StartPaymentSystem
  <2> QED BY <1>11, <2>3 DEF StartPaymentSystem, Restarted, TypeInv, TypeOK, Boxes,
        connections, orderVars, history
<1>12. ASSUME ExecuteAutorization PROVE TypeInv'
  <2> DEFINE m == Head(outbox[Gateway])
  <2>1. /\ Gateway \in Clients
        /\ m \in Line
        /\ Tail(outbox[Gateway]) \in Seq(Line)
        /\ [outbox EXCEPT ![Gateway] = Tail(@)] \in Boxes
    <3>1. Gateway \in Clients /\ outbox[Gateway] # <<>>
      BY <1>12 DEF Clients, ExecuteAutorization, Taken
    <3> QED BY <3>1, TakeLine
  <2>2. m \in [type : {"AuthorizePayment"}, customer : Customers, price : Prices,
                restaurant : Restaurants]
    BY <1>12, <2>1, LineFields DEF ExecuteAutorization, Taken
  <2>3. PICK answer \in {"PaymentAuthorized", "PaymentDenied"} :
          /\ mailbox' = Append(mailbox, [m EXCEPT !.type = answer])
          /\ IF answer = "PaymentAuthorized"
             THEN Note("authorized", m.customer, m.price)
             ELSE UNCHANGED log
    BY <1>12 DEF ExecuteAutorization
  <2> HIDE DEF m
  <2>4. mailbox' \in Seq(Message)
    <3>1. [m EXCEPT !.type = answer] \in Message
      BY <2>2 DEF Message
    <3> QED BY <2>3, <3>1, MailboxAppend DEF TypeInv, TypeOK
  <2>5. outbox' \in Boxes
    BY <1>12, <2>1 DEF ExecuteAutorization
  <2>6. log' \subseteq Events \X Customers \X Prices
    BY <2>2, <2>3 DEF Note, Events, TypeInv, TypeOK
  <2> QED BY <1>12, <2>4, <2>5, <2>6 DEF ExecuteAutorization, TypeInv, TypeOK, Boxes,
        managerVars, connections, orderVars, clientVars
<1>13. ASSUME ExecutePayment PROVE TypeInv'
  <2> DEFINE m == Head(outbox[Gateway])
  <2>1. /\ Gateway \in Clients
        /\ m \in Line
        /\ Tail(outbox[Gateway]) \in Seq(Line)
        /\ [outbox EXCEPT ![Gateway] = Tail(@)] \in Boxes
    <3>1. Gateway \in Clients /\ outbox[Gateway] # <<>>
      BY <1>13 DEF Clients, ExecutePayment, Taken
    <3> QED BY <3>1, TakeLine
  <2>2. m \in [type : {"ExecutePayment"}, customer : Customers, price : Prices]
    BY <1>13, <2>1, LineFields DEF ExecutePayment, Taken
  <2>3. [m EXCEPT !.type = "PaymentExecuted"] \in Message
    BY <2>2 DEF Message
  <2>4. mailbox' \in Seq(Message)
    BY <1>13, <2>3, MailboxAppend DEF ExecutePayment, TypeInv, TypeOK
  <2>5. outbox' \in Boxes
    BY <1>13, <2>1 DEF ExecutePayment
  <2>6. log' \subseteq Events \X Customers \X Prices
    BY <1>13, <2>2 DEF ExecutePayment, Note, Events, TypeInv, TypeOK
  <2> QED BY <1>13, <2>4, <2>5, <2>6 DEF ExecutePayment, TypeInv, TypeOK, Boxes,
        managerVars, connections, orderVars, clientVars
<1> QED BY <1>1, <1>2, <1>3, <1>4, <1>5, <1>6, <1>7, <1>8, <1>9, <1>10, <1>11, <1>12, <1>13
    DEF Customer, Rider, PaymentSystem

(* An order leaves the table.                                              *)
LEMMA RemovalType ==
    ASSUME TypeInv, NEW c \in Customers,
           \/ orders_in_process' = orders_in_process
           \/ orders_in_process' = [orders_in_process EXCEPT ![c] = None]
    PROVE  /\ orders_in_process' \in [Customers \cup Riders -> Entries]
           /\ \A d \in Customers : orders_in_process'[d] # None =>
                  orders_in_process'[d].order_price \in Prices
BY DEF TypeInv, TypeOK, Entries

(* The steps of the ConnectionManager.                                     *)
LEMMA HandleTypeStep ==
    ASSUME TypeInv, Handle
    PROVE  TypeInv'
<1> DEFINE m == Head(mailbox)
<1> USE OrderFlowAssumption
<1>1. /\ m \in Message /\ Tail(mailbox) \in Seq(Message)
      /\ UNCHANGED clientVars
      /\ outbox \in Boxes /\ rider_connections \in [Riders -> Nat]
      /\ pending_delivery_requests \in Seq(Customers)
  BY DEF Handle, TypeInv, TypeOK, Boxes
<1>2. \/ HandleRegisterCustomer(m)      \/ HandleRegisterRider(m)
      \/ HandleRegisterRestaurant(m)    \/ HandleRegisterPaymentSystem(m)
      \/ SendRestaurantList(m)          \/ AuthorizePayment(m)
      \/ PaymentAuthorized(m)           \/ PaymentDenied(m)
      \/ OrderRequest(m)                \/ OrderReady(m)
      \/ OrderCancelled(m)              \/ FindRider(m)
      \/ DeliveryOfferAccepted(m)       \/ DeliveryDone(m)
      \/ PaymentExecuted(m)
  BY DEF Handle
<1> HIDE DEF m
<1>3. \A c \in Customers : PostCustomer(c, [type |-> "FinishDelivery"]) \in Boxes
  <2>1. [type |-> "FinishDelivery"] \in Line
    BY DEF Line
  <2> QED BY <1>1, <2>1, PostType DEF PostCustomer, Clients
<1>4. CASE HandleRegisterCustomer(m)
  <2>1. m.customer \in Customers /\ m.session \in Nat
    BY <1>1, <1>4, MessageFields DEF HandleRegisterCustomer
  <2>2. outbox' \in Boxes /\ pending_delivery_requests' \in Seq(Customers)
    BY <1>1, <1>4, ProcessType DEF HandleRegisterCustomer
  <2>3. [type |-> "SendRestaurantList", customer |-> m.customer] \in Message
    BY <2>1 DEF Message
  <2>4. mailbox' \in Seq(Message)
    BY <1>1, <1>4, <2>3, MailboxAppend DEF HandleRegisterCustomer
  <2>5. /\ customers' \in [Customers -> Prices \cup {0, None}]
        /\ customer_connections' \in [Customers -> Nat]
    BY <1>4, <2>1 DEF HandleRegisterCustomer, TypeInv, TypeOK
  <2> QED BY <1>1, <1>4, <2>2, <2>4, <2>5 DEF HandleRegisterCustomer, TypeInv, TypeOK,
        Boxes, clientVars, history
<1>5. CASE HandleRegisterRider(m)
  <2>1. m.rider \in Riders /\ m.session \in Nat
    BY <1>1, <1>5, MessageFields DEF HandleRegisterRider
  <2>2. rider_connections' \in [Riders -> Nat]
    BY <1>1, <1>5, <2>1 DEF HandleRegisterRider
  <2>3. outbox' \in Boxes /\ pending_delivery_requests' \in Seq(Customers)
    BY <1>1, <1>5, <2>2, ProcessType DEF HandleRegisterRider
  <2>4. mailbox' \in Seq(Message)
    BY <1>1, <1>5 DEF HandleRegisterRider
  <2> QED BY <1>1, <1>5, <2>2, <2>3, <2>4 DEF HandleRegisterRider, TypeInv, TypeOK,
        Boxes, orderVars, clientVars, history
<1>6. CASE HandleRegisterRestaurant(m)
  <2>1. m.restaurant \in Restaurants /\ m.session \in Nat
    BY <1>1, <1>6, MessageFields DEF HandleRegisterRestaurant
  <2>2. outbox' \in Boxes /\ pending_delivery_requests' \in Seq(Customers)
    BY <1>1, <1>6, ProcessType DEF HandleRegisterRestaurant
  <2>3. /\ cooking' \in [Restaurants -> SUBSET Orders]
        /\ restaurant_connections' \in [Restaurants -> Nat]
    BY <1>6, <2>1 DEF HandleRegisterRestaurant, Prepare, TypeInv, TypeOK
  <2>4. mailbox' \in Seq(Message)
    BY <1>1, <1>6 DEF HandleRegisterRestaurant
  <2> QED BY <1>1, <1>6, <2>2, <2>3, <2>4 DEF HandleRegisterRestaurant, TypeInv, TypeOK,
        Boxes, orderVars, clientVars, history
<1>7. CASE HandleRegisterPaymentSystem(m)
  <2>1. m.session \in Nat
    BY <1>1, <1>7, MessageFields DEF HandleRegisterPaymentSystem
  <2>2. outbox' \in Boxes /\ pending_delivery_requests' \in Seq(Customers)
    BY <1>1, <1>7, ProcessType DEF HandleRegisterPaymentSystem
  <2>3. mailbox' \in Seq(Message)
    BY <1>1, <1>7 DEF HandleRegisterPaymentSystem
  <2> QED BY <1>1, <1>7, <2>1, <2>2, <2>3 DEF HandleRegisterPaymentSystem, TypeInv, TypeOK,
        Boxes, orderVars, clientVars, history
<1>8. CASE SendRestaurantList(m)
  <2>1. m.customer \in Customers
    BY <1>1, <1>8, MessageFields DEF SendRestaurantList
  <2> DEFINE line == [type |-> "Restaurants", names |->
                        {x \in Nearby[m.customer] : restaurant_connections[x] # 0}]
  <2>2. line \in Line
    BY <2>1 DEF Line
  <2>3. PostCustomer(m.customer, line) \in Boxes
    BY <1>1, <2>1, <2>2, PostType DEF PostCustomer, Clients
  <2>4. outbox' \in Boxes /\ pending_delivery_requests' \in Seq(Customers)
    BY <1>1, <1>8, <2>3, ProcessType DEF SendRestaurantList
  <2>5. mailbox' \in Seq(Message)
    BY <1>1, <1>8 DEF SendRestaurantList
  <2> QED BY <1>1, <1>8, <2>4, <2>5 DEF SendRestaurantList, TypeInv, TypeOK,
        Boxes, connections, orderVars, clientVars, history
<1>9. CASE AuthorizePayment(m)
  <2>1. m \in [type : {"AuthorizePayment"}, customer : Customers, price : Prices,
                restaurant : Restaurants]
    BY <1>1, <1>9, MessageFields DEF AuthorizePayment
  <2>2. m \in Line /\ Gateway \in Clients
    BY <2>1 DEF Line, Clients
  <2>3. Post(outbox, Gateway, payment_system, m) \in Boxes
    BY <1>1, <2>2, PostType
  <2>4. outbox' \in Boxes /\ pending_delivery_requests' \in Seq(Customers)
    BY <1>1, <1>3, <1>9, <2>1, <2>3, ProcessType DEF AuthorizePayment
  <2>5. log' \subseteq Events \X Customers \X Prices
    BY <1>9, <2>1 DEF AuthorizePayment, Note, Events, TypeInv, TypeOK
  <2>6. mailbox' \in Seq(Message)
    BY <1>1, <1>9 DEF AuthorizePayment
  <2> QED BY <1>1, <1>9, <2>4, <2>5, <2>6 DEF AuthorizePayment, TypeInv, TypeOK,
        Boxes, connections, orderVars, clientVars
<1>10. CASE PaymentAuthorized(m)
  <2>1. [m EXCEPT !.type = "OrderRequest"] \in Message
    <3>1. m \in [type : {"AuthorizePayment", "PaymentAuthorized", "PaymentDenied", "OrderRequest"},
                  customer : Customers, price : Prices, restaurant : Restaurants]
      BY <1>1, <1>10, MessageFields DEF PaymentAuthorized
    <3> QED BY <3>1 DEF Message
  <2>2. outbox' \in Boxes /\ pending_delivery_requests' \in Seq(Customers)
    BY <1>1, <1>10, ProcessType DEF PaymentAuthorized
  <2>3. mailbox' \in Seq(Message)
    BY <1>1, <1>10, <2>1, MailboxAppend DEF PaymentAuthorized
  <2> QED BY <1>1, <1>10, <2>2, <2>3 DEF PaymentAuthorized, TypeInv, TypeOK,
        Boxes, connections, orderVars, clientVars, history
<1>11. CASE PaymentDenied(m)
  <2>1. m \in [type : {"AuthorizePayment", "PaymentAuthorized", "PaymentDenied", "OrderRequest"},
                customer : Customers, price : Prices, restaurant : Restaurants]
    BY <1>1, <1>11, MessageFields DEF PaymentDenied
  <2>2. outbox' \in Boxes /\ pending_delivery_requests' \in Seq(Customers)
    BY <1>1, <1>3, <1>11, <2>1, ProcessType DEF PaymentDenied
  <2>3. log' \subseteq Events \X Customers \X Prices
    BY <1>11, <2>1 DEF PaymentDenied, Note, Events, TypeInv, TypeOK
  <2>4. mailbox' \in Seq(Message)
    BY <1>1, <1>11 DEF PaymentDenied
  <2> QED BY <1>1, <1>11, <2>2, <2>3, <2>4 DEF PaymentDenied, TypeInv, TypeOK,
        Boxes, connections, orderVars, clientVars
<1>12. CASE OrderRequest(m)
  <2>1. m \in [type : {"AuthorizePayment", "PaymentAuthorized", "PaymentDenied", "OrderRequest"},
                customer : Customers, price : Prices, restaurant : Restaurants]
    BY <1>1, <1>12, MessageFields DEF OrderRequest
  <2>2. mailbox' \in Seq(Message)
    BY <1>1, <1>12 DEF OrderRequest
  <2>3. CASE customers[m.customer] = None
    BY <1>1, <1>12, <2>2, <2>3 DEF OrderRequest, TypeInv, TypeOK,
        Boxes, connections, orderVars, clientVars, history
  <2>4. CASE customers[m.customer] # None
    <3>1. outbox' \in Boxes /\ pending_delivery_requests' \in Seq(Customers)
      BY <1>1, <1>12, <2>4, ProcessType DEF OrderRequest
    <3>2. customers' \in [Customers -> Prices \cup {0, None}]
      <4>1. customers' = [customers EXCEPT ![m.customer] = m.price]
        BY <1>12, <2>4 DEF OrderRequest
      <4>2. customers \in [Customers -> Prices \cup {0, None}]
        BY DEF TypeInv, TypeOK
      <4> QED BY <2>1, <4>1, <4>2
    <3> DEFINE entry == [customer_id |-> m.customer, order_price |-> m.price, rider_id |-> None]
               o == [customer |-> m.customer, price |-> m.price]
    <3>3. entry \in Entries /\ o \in Orders /\ entry.order_price \in Prices
      BY <2>1 DEF Entries, OrderData, Orders, Prices
    <3>4. orders_in_process' = [orders_in_process EXCEPT ![m.customer] = entry]
      BY <1>12, <2>4 DEF OrderRequest, NewOrder
    <3>5. /\ pending_orders' = IF restaurant_connections[m.restaurant] = 0 THEN pending_orders
                               ELSE [pending_orders EXCEPT ![m.restaurant] = @ \cup {o}]
          /\ Prepare(m.restaurant, restaurant_connections[m.restaurant], {o})
      BY <1>12, <2>4 DEF OrderRequest, NewOrder
    <3> HIDE DEF entry, o
    <3>6. /\ orders_in_process' \in [Customers \cup Riders -> Entries]
          /\ \A c \in Customers : orders_in_process'[c] # None =>
                 orders_in_process'[c].order_price \in Prices
      BY <2>1, <3>3, <3>4 DEF TypeInv, TypeOK
    <3>7. /\ pending_orders' \in [Restaurants -> SUBSET Orders]
          /\ cooking' \in [Restaurants -> SUBSET Orders]
      BY <2>1, <3>3, <3>5 DEF Prepare, TypeInv, TypeOK
    <3> QED BY <1>1, <1>12, <2>2, <3>1, <3>2, <3>6, <3>7 DEF OrderRequest, TypeInv, TypeOK,
          Boxes, connections, clientVars, history
  <2> QED BY <2>3, <2>4
<1>13. CASE OrderReady(m)
  <2>1. m.customer \in Customers
    BY <1>1, <1>13, MessageFields DEF OrderReady
  <2>2. [type |-> "FindRider", customer |-> m.customer] \in Message
    BY <2>1 DEF Message
  <2>3. mailbox' \in Seq(Message)
    <3>1. \/ mailbox' = Tail(mailbox)
          \/ mailbox' = Append(Tail(mailbox), [type |-> "FindRider", customer |-> m.customer])
      BY <1>13 DEF OrderReady
    <3>2. Tail(mailbox) \in Seq(Message)
      BY <1>1
    <3>3. Append(Tail(mailbox), [type |-> "FindRider", customer |-> m.customer]) \in Seq(Message)
      BY <2>2, <3>2, MailboxAppend
    <3> QED BY <3>1, <3>2, <3>3
  <2>4. pending_orders' \in [Restaurants -> SUBSET Orders]
    BY <1>13 DEF OrderReady, TypeInv, TypeOK
  <2> QED BY <1>1, <1>13, <2>3, <2>4 DEF OrderReady, TypeInv, TypeOK,
        Boxes, connections, clientVars, history
<1>14. CASE OrderCancelled(m)
  <2>1. m.customer \in Customers
    BY <1>1, <1>14, MessageFields DEF OrderCancelled
  <2>2. outbox' \in Boxes
    BY <1>1, <1>3, <1>14, <2>1 DEF OrderCancelled
  <2>3. /\ orders_in_process' \in [Customers \cup Riders -> Entries]
        /\ \A c \in Customers : orders_in_process'[c] # None =>
               orders_in_process'[c].order_price \in Prices
    <3>1. \/ orders_in_process' = orders_in_process
          \/ orders_in_process' = [orders_in_process EXCEPT ![m.customer] = None]
      BY <1>14 DEF OrderCancelled
    <3> QED BY <2>1, <3>1, RemovalType
  <2>4. mailbox' \in Seq(Message)
    BY <1>1, <1>14 DEF OrderCancelled
  <2> QED BY <1>1, <1>14, <2>2, <2>3, <2>4 DEF OrderCancelled, TypeInv, TypeOK,
        Boxes, connections, clientVars, history
<1>15. CASE FindRider(m)
  <2>1. m.customer \in Customers
    BY <1>1, <1>15, MessageFields DEF FindRider
  <2>2. [type |-> "DeliveryOffer", customer |-> m.customer] \in Line
    BY <2>1 DEF Line
  <2>3. outbox' \in Boxes /\ pending_delivery_requests' \in Seq(Customers)
    <3>1. CASE customers[m.customer] = None
      BY <1>1, <1>15, <3>1 DEF FindRider
    <3>2. CASE customers[m.customer] # None
      <4>1. PICK closest \in closest_riders :
              IF closest = {}
              THEN /\ pending_delivery_requests' =
                          Append(pending_delivery_requests, m.customer)
                   /\ UNCHANGED outbox
              ELSE /\ outbox' = [cl \in Clients |->
                        IF cl \in closest /\ rider_connections[cl] = session[cl]
                        THEN Append(outbox[cl], [type |-> "DeliveryOffer",
                                                 customer |-> m.customer])
                        ELSE outbox[cl]]
                   /\ UNCHANGED pending_delivery_requests
        BY <1>15, <3>2 DEF FindRider
      <4>2. CASE closest = {}
        <5>1. pending_delivery_requests' = Append(pending_delivery_requests, m.customer)
              /\ outbox' = outbox
          BY <4>1, <4>2
        <5>2. Append(pending_delivery_requests, m.customer) \in Seq(Customers)
          BY <1>1, <2>1
        <5> QED BY <1>1, <5>1, <5>2
      <4>3. CASE closest # {}
        <5> DEFINE line == [type |-> "DeliveryOffer", customer |-> m.customer]
        <5>1. /\ outbox' = [cl \in Clients |->
                        IF cl \in closest /\ rider_connections[cl] = session[cl]
                        THEN Append(outbox[cl], line) ELSE outbox[cl]]
              /\ pending_delivery_requests' = pending_delivery_requests
          BY <4>1, <4>3
        <5>2. line \in Line
          BY <2>2
        <5> HIDE DEF line
        <5>3. \A cl \in Clients : outbox[cl] \in Seq(Line) /\ Append(outbox[cl], line) \in Seq(Line)
          BY <1>1, <5>2 DEF Boxes
        <5> QED BY <1>1, <5>1, <5>3 DEF Boxes
      <4> QED BY <4>2, <4>3
    <3> QED BY <3>1, <3>2
  <2>4. mailbox' \in Seq(Message)
    BY <1>1, <1>15 DEF FindRider
  <2> QED BY <1>1, <1>15, <2>3, <2>4 DEF FindRider, TypeInv, TypeOK,
        Boxes, connections, orderVars, clientVars, history
<1>16. CASE DeliveryOfferAccepted(m)
  <2>1. m.customer \in Customers /\ m.rider \in Riders
    BY <1>1, <1>16, MessageFields DEF DeliveryOfferAccepted
  <2> DEFINE c == m.customer
             order == orders_in_process[c]
             noted == IF customer_connections[c] # 0 /\ customers[c] # None
                      THEN [orders_in_process EXCEPT ![m.rider] =
                             [customer_id |-> c, order_price |-> customers[c],
                              rider_id |-> m.rider]]
                      ELSE orders_in_process
  <2>2. /\ noted \in [Customers \cup Riders -> Entries]
        /\ \A d \in Customers : noted[d] = orders_in_process[d]
    <3>1. customers[c] # None => customers[c] \in 0 .. MaxOrders
      <4>1. customers[c] \in Prices \cup {0, None}
        BY <2>1 DEF TypeInv, TypeOK
      <4> QED BY <4>1 DEF Prices
    <3>2. customers[c] # None =>
            [customer_id |-> c, order_price |-> customers[c], rider_id |-> m.rider] \in Entries
      BY <2>1, <3>1 DEF Entries, OrderData
    <3> QED BY <2>1, <3>2 DEF TypeInv, TypeOK
  <2>3. mailbox' \in Seq(Message)
    BY <1>1, <1>16 DEF DeliveryOfferAccepted
  <2>4. CASE order = None \/ order.rider_id # None
    <3>1. orders_in_process' = noted /\ UNCHANGED <<outbox, assigned>>
      BY <1>16, <2>4 DEF DeliveryOfferAccepted, Assignable
    <3> HIDE DEF noted
    <3> QED BY <1>1, <1>16, <2>2, <2>3, <3>1 DEF DeliveryOfferAccepted, Assignable, TypeInv, TypeOK,
          Boxes, connections, clientVars
  <2>5. CASE ~(order = None \/ order.rider_id # None)
    <3>1. /\ orders_in_process' = [noted EXCEPT ![c] = [order EXCEPT !.rider_id = m.rider]]
          /\ outbox' = Post(outbox, m.rider, rider_connections[m.rider],
                       [type |-> "DeliveryOfferConfirmed", customer |-> c])
          /\ assigned' = assigned \cup {<<m.rider, c, order.order_price>>}
      BY <1>16, <2>5 DEF DeliveryOfferAccepted, Assignable
    <3>2. order \in OrderData /\ order.order_price \in Prices
      BY <2>1, <2>5 DEF TypeInv, TypeOK, Entries
    <3> HIDE DEF noted, order
    <3>3. /\ [order EXCEPT !.rider_id = m.rider] \in Entries
          /\ [order EXCEPT !.rider_id = m.rider].order_price \in Prices
      BY <2>1, <3>2 DEF Entries, OrderData
    <3>4. /\ orders_in_process' \in [Customers \cup Riders -> Entries]
          /\ \A d \in Customers : orders_in_process'[d] # None =>
                 orders_in_process'[d].order_price \in Prices
      BY <2>1, <2>2, <3>1, <3>3 DEF TypeInv
    <3>5. [type |-> "DeliveryOfferConfirmed", customer |-> c] \in Line
      BY <2>1 DEF Line
    <3>6. outbox' \in Boxes
      BY <1>1, <2>1, <3>1, <3>5, PostType DEF Clients
    <3>7. assigned' \subseteq Riders \X Customers \X Prices
      BY <2>1, <3>1, <3>2 DEF TypeInv, TypeOK
    <3> QED BY <1>1, <1>16, <2>3, <3>4, <3>6, <3>7 DEF DeliveryOfferAccepted, Assignable, TypeInv, TypeOK,
          Boxes, connections, clientVars
  <2> QED BY <2>4, <2>5
<1>17. CASE DeliveryDone(m)
  <2>1. m.customer \in Customers
    BY <1>1, <1>17, MessageFields DEF DeliveryDone
  <2> DEFINE order == orders_in_process[m.customer]
  <2>2. mailbox' \in Seq(Message)
    BY <1>1, <1>17 DEF DeliveryDone
  <2>3. /\ orders_in_process' \in [Customers \cup Riders -> Entries]
        /\ \A c \in Customers : orders_in_process'[c] # None =>
               orders_in_process'[c].order_price \in Prices
    <3>1. \/ orders_in_process' = orders_in_process
          \/ orders_in_process' = [orders_in_process EXCEPT ![m.customer] = None]
      BY <1>17 DEF DeliveryDone
    <3> QED BY <2>1, <3>1, RemovalType
  <2>4. outbox' \in Boxes
    <3>1. order # None =>
            [type |-> "ExecutePayment", customer |-> m.customer, price |-> order.order_price] \in Line
      BY <2>1 DEF Line, TypeInv
    <3>2. order # None => outbox' = Post(outbox, Gateway, payment_system,
            [type |-> "ExecutePayment", customer |-> m.customer, price |-> order.order_price])
      BY <1>17 DEF DeliveryDone
    <3>3. order = None => outbox' = outbox
      BY <1>17 DEF DeliveryDone
    <3> HIDE DEF order
    <3> QED BY <1>1, <3>1, <3>2, <3>3, PostType DEF Clients
  <2> QED BY <1>1, <1>17, <2>2, <2>3, <2>4 DEF DeliveryDone, TypeInv, TypeOK,
        Boxes, connections, clientVars, history
<1>18. CASE PaymentExecuted(m)
  <2>1. m.customer \in Customers
    BY <1>1, <1>18, MessageFields DEF PaymentExecuted
  <2>2. outbox' \in Boxes /\ pending_delivery_requests' \in Seq(Customers)
    BY <1>1, <1>3, <1>18, <2>1, ProcessType DEF PaymentExecuted
  <2>3. /\ orders_in_process' \in [Customers \cup Riders -> Entries]
        /\ \A c \in Customers : orders_in_process'[c] # None =>
               orders_in_process'[c].order_price \in Prices
    <3>1. \/ orders_in_process' = orders_in_process
          \/ orders_in_process' = [orders_in_process EXCEPT ![m.customer] = None]
      BY <1>18 DEF PaymentExecuted
    <3> QED BY <2>1, <3>1, RemovalType
  <2>4. mailbox' \in Seq(Message)
    BY <1>1, <1>18 DEF PaymentExecuted
  <2> QED BY <1>1, <1>18, <2>2, <2>3, <2>4 DEF PaymentExecuted, TypeInv, TypeOK,
        Boxes, connections, clientVars, history
<1> QED BY <1>2, <1>4, <1>5, <1>6, <1>7, <1>8, <1>9, <1>10, <1>11, <1>12, <1>13, <1>14,
    <1>15, <1>16, <1>17, <1>18

(* Every step keeps the types.                                             *)
LEMMA TypeStep == TypeInv /\ [Next]_vars => TypeInv'
<1> SUFFICES ASSUME TypeInv, [Next]_vars PROVE TypeInv'
  OBVIOUS
<1>1. CASE Next
  BY <1>1, ClientTypeStep, HandleTypeStep DEF Next
<1>2. CASE UNCHANGED vars
  BY <1>2 DEF vars, connections, orderVars, clientVars, history, TypeInv, TypeOK
<1> QED BY <1>1, <1>2

(* The strengthened type invariant holds always.                           *)
LEMMA SpecTypeInv == Spec => []TypeInv
BY TypeInit, TypeStep, PTL DEF Spec

(* Every reachable state of the order flow is well typed.                  *)
THEOREM TypeCorrect == Spec => []TypeOK
<1>1. TypeInv => TypeOK
  BY DEF TypeInv
<1> QED BY <1>1, SpecTypeInv, PTL

----------------------------------------------------------------------------
(* Requests wait only while no rider is connected.                         *)

LEMMA ProcessWaiting ==
    ASSUME NEW box, NEW riders, process_pending_requests(box, riders)
    PROVE  \/ pending_delivery_requests' = <<>>
           \/ /\ pending_delivery_requests' = pending_delivery_requests
              /\ \A r \in Riders : riders[r] = 0
BY DEF process_pending_requests

(* With a rider connected, an order ready is offered to somebody.          *)
LEMMA SomebodyIsClose ==
    ASSUME NEW S \in closest_riders, S = {}
    PROVE  \A r \in Riders : rider_connections[r] = 0
<1>1. Cardinality({}) = 0
  BY FS_EmptySet
<1> QED BY <1>1, OrderFlowAssumption DEF closest_riders

(* Every step keeps an order from waiting while a rider is connected.      *)
LEMMA WaitingStep ==
    ASSUME TypeInv, WaitingMeansNoRider, [Next]_vars
    PROVE  WaitingMeansNoRider'
<1> DEFINE m == Head(mailbox)
           Same == /\ pending_delivery_requests' = pending_delivery_requests
                   /\ rider_connections' = rider_connections
           Drained == /\ rider_connections' = rider_connections
                      /\ \E box : process_pending_requests(box, rider_connections)
<1>1. ASSUME Same PROVE WaitingMeansNoRider'
  BY <1>1 DEF WaitingMeansNoRider
<1>2. ASSUME Drained PROVE WaitingMeansNoRider'
  BY <1>2, ProcessWaiting DEF WaitingMeansNoRider
<1>3. CASE Handle
  <2>1. m \in Message
    BY <1>3 DEF Handle, TypeInv, TypeOK
  <2>2. CASE HandleRegisterRider(m)
    <3>1. m.rider \in Riders /\ m.session \in Nat \ {0}
      BY <2>1, <2>2, MessageFields DEF HandleRegisterRider
    <3>2. rider_connections' = [rider_connections EXCEPT ![m.rider] = m.session]
      BY <2>2 DEF HandleRegisterRider
    <3>3. rider_connections'[m.rider] # 0
      BY <3>1, <3>2 DEF TypeInv, TypeOK
    <3>4. pending_delivery_requests' = <<>>
      BY <2>2, <3>1, <3>3, ProcessWaiting DEF HandleRegisterRider
    <3> QED BY <3>4 DEF WaitingMeansNoRider
  <2>3. CASE FindRider(m)
    <3>1. CASE \E S \in closest_riders : S = {}
      BY <2>3, <3>1, SomebodyIsClose DEF FindRider, WaitingMeansNoRider, connections
    <3>2. CASE \A S \in closest_riders : S # {}
      BY <1>1, <2>3, <3>2 DEF FindRider, connections
    <3> QED BY <3>1, <3>2
  <2>4. CASE OrderRequest(m)
    BY <1>1, <1>2, <2>4 DEF OrderRequest, connections
  <2>5. CASE OrderReady(m) \/ OrderCancelled(m) \/ DeliveryOfferAccepted(m) \/ DeliveryDone(m)
    BY <1>1, <2>5 DEF OrderReady, OrderCancelled, DeliveryOfferAccepted, DeliveryDone, connections
  <2>6. CASE HandleRegisterCustomer(m) \/ HandleRegisterRestaurant(m)
    BY <1>2, <2>6 DEF HandleRegisterCustomer, HandleRegisterRestaurant
  <2>7. CASE HandleRegisterPaymentSystem(m) \/ SendRestaurantList(m)
    BY <1>2, <2>7 DEF HandleRegisterPaymentSystem, SendRestaurantList, connections
  <2>8. CASE AuthorizePayment(m)
    BY <1>2, <2>8 DEF AuthorizePayment, connections
  <2>9. CASE PaymentAuthorized(m) \/ PaymentDenied(m)
    BY <1>2, <2>9 DEF PaymentAuthorized, PaymentDenied, connections
  <2>10. CASE PaymentExecuted(m)
    BY <1>2, <2>10 DEF PaymentExecuted, connections
  <2> QED BY <1>3, <2>2, <2>3, <2>4, <2>5, <2>6, <2>7, <2>8, <2>9, <2>10 DEF Handle
<1>4. ASSUME NEW c \in Customers, StartCustomer(c) \/ Customer(c) \/ GetRestaurants(c)
      PROVE  WaitingMeansNoRider'
  BY <1>1, <1>4 DEF StartCustomer, Restarted, Customer, ChooseRestaurant, FinishDelivery,
     GetRestaurants, managerVars, connections
<1>5. ASSUME NEW r \in Riders, StartRider(r) \/ Rider(r) PROVE WaitingMeansNoRider'
  BY <1>1, <1>5 DEF StartRider, Restarted, Rider, DeliveryOffer, DeliveryOfferConfirmed,
     GoToCustomerLocation, managerVars, connections
<1>6. ASSUME NEW x \in Restaurants, StartRestaurant(x) \/ ContinueOrder(x)
      PROVE  WaitingMeansNoRider'
  BY <1>1, <1>6 DEF StartRestaurant, Restarted, ContinueOrder, managerVars, connections
<1>7. CASE StartPaymentSystem \/ PaymentSystem
  BY <1>1, <1>7 DEF StartPaymentSystem, Restarted, PaymentSystem, ExecuteAutorization,
     ExecutePayment, managerVars, connections
<1>8. CASE UNCHANGED vars
  BY <1>1, <1>8 DEF vars, connections
<1> QED BY <1>3, <1>4, <1>5, <1>6, <1>7, <1>8 DEF Next

(* Whatever the number of riders and their restarts, no delivery waits in  *)
(* the queue of the manager once a rider has registered.                   *)
THEOREM WaitingCorrect == Spec => []WaitingMeansNoRider
<1>1. Init => WaitingMeansNoRider
  BY DEF Init, WaitingMeansNoRider
<1>2. TypeInv /\ WaitingMeansNoRider /\ [Next]_vars => WaitingMeansNoRider'
  BY WaitingStep
<1> QED BY <1>1, <1>2, SpecTypeInv, PTL DEF Spec

----------------------------------------------------------------------------
(* Only what was authorized is charged.  The authorization of an order     *)
(* travels with the messages that carry it on, with its entry under the    *)
(* key of the customer, and with the line that has it charged.             *)

AuthMail(box, l) ==
    \A i \in 1 .. Len(box) :
        box[i].type \in {"PaymentAuthorized", "OrderRequest"}
            => <<"authorized", box[i].customer, box[i].price>> \in l

AuthTable(table, l) ==
    \A c \in Customers : table[c] # None
        => <<"authorized", c, table[c].order_price>> \in l

AuthLines(lines, l) ==
    \A i \in 1 .. Len(lines) : lines[i].type = "ExecutePayment"
        => <<"authorized", lines[i].customer, lines[i].price>> \in l

AuthInv ==
    /\ AuthMail(mailbox, log)
    /\ AuthTable(orders_in_process, log)
    /\ AuthLines(outbox[Gateway], log)
    /\ ChargedWasAuthorized

(* What was authorized stays so when the log grows.                        *)
LEMMA AuthGrows ==
    ASSUME AuthInv, log \subseteq log'
    PROVE  /\ AuthMail(mailbox, log')
           /\ AuthTable(orders_in_process, log')
           /\ AuthLines(outbox[Gateway], log')
BY DEF AuthInv, AuthMail, AuthTable, AuthLines

(* A mailbox stays authorized when its first message is taken.             *)
LEMMA AuthMailTail ==
    ASSUME NEW box \in Seq(Message), box # <<>>, NEW l, AuthMail(box, l)
    PROVE  AuthMail(Tail(box), l)
<1>1. Len(Tail(box)) = Len(box) - 1 /\ \A i \in 1 .. Len(box) - 1 : Tail(box)[i] = box[i + 1]
  OBVIOUS
<1> QED BY <1>1 DEF AuthMail

(* A mailbox stays authorized when an authorized message is sent to it.    *)
LEMMA AuthMailAppend ==
    ASSUME NEW box \in Seq(Message), NEW m, NEW l, AuthMail(box, l),
           m.type \in {"PaymentAuthorized", "OrderRequest"}
               => <<"authorized", m.customer, m.price>> \in l
    PROVE  AuthMail(Append(box, m), l)
<1>1. /\ Len(Append(box, m)) = Len(box) + 1
      /\ \A i \in 1 .. Len(box) : Append(box, m)[i] = box[i]
      /\ Append(box, m)[Len(box) + 1] = m
  OBVIOUS
<1> QED BY <1>1 DEF AuthMail

(* The gateway's lines stay authorized when the first is read.             *)
LEMMA AuthLinesTail ==
    ASSUME NEW lines \in Seq(Line), lines # <<>>, NEW l, AuthLines(lines, l)
    PROVE  AuthLines(Tail(lines), l)
<1>1. Len(Tail(lines)) = Len(lines) - 1 /\ \A i \in 1 .. Len(lines) - 1 : Tail(lines)[i] = lines[i + 1]
  OBVIOUS
<1> QED BY <1>1 DEF AuthLines

(* The gateway's lines stay authorized when an authorized one is written.  *)
LEMMA AuthLinesAppend ==
    ASSUME NEW lines \in Seq(Line), NEW m, NEW l, AuthLines(lines, l),
           m.type = "ExecutePayment" => <<"authorized", m.customer, m.price>> \in l
    PROVE  AuthLines(Append(lines, m), l)
<1>1. /\ Len(Append(lines, m)) = Len(lines) + 1
      /\ \A i \in 1 .. Len(lines) : Append(lines, m)[i] = lines[i]
      /\ Append(lines, m)[Len(lines) + 1] = m
  OBVIOUS
<1> QED BY <1>1 DEF AuthLines

(* What is sent to the others leaves the lines to the payment system alone.*)
LEMMA PostElsewhere ==
    ASSUME NEW box \in Boxes, NEW cl \in Clients, cl # Gateway, NEW s, NEW line
    PROVE  Post(box, cl, s, line)[Gateway] = box[Gateway]
BY DEF Post, Boxes, Clients

(* process_pending_requests writes nothing to the payment gateway.         *)
LEMMA ProcessElsewhere ==
    ASSUME NEW box \in Boxes, NEW riders, process_pending_requests(box, riders)
    PROVE  outbox'[Gateway] = box[Gateway]
<1> DEFINE known == {r \in Riders : riders[r] # 0}
           offers == [i \in 1 .. Len(pending_delivery_requests) |->
                        [type |-> "DeliveryOffer", customer |-> pending_delivery_requests[i]]]
<1>1. CASE known = {}
  BY <1>1 DEF process_pending_requests
<1>2. CASE known # {}
  <2>1. PICK r \in known :
           outbox' = IF riders[r] = session[r]
                     THEN [box EXCEPT ![r] = @ \o offers] ELSE box
    BY <1>2 DEF process_pending_requests
  <2>2. r # Gateway
    BY OrderFlowAssumption
  <2> HIDE DEF offers
  <2> QED BY <2>1, <2>2 DEF Boxes, Clients
<1> QED BY <1>1, <1>2

(* What the manager appends to its mailbox, and what becomes of the table  *)
(* and of the lines to the payment system, in one step.                    *)
LEMMA HandleMail ==
    ASSUME TypeInv, Handle
    PROVE  LET m == Head(mailbox)
           IN  \/ mailbox' = Tail(mailbox)
               \/ \E n : /\ n.type \in {"SendRestaurantList", "FindRider"}
                         /\ mailbox' = Append(Tail(mailbox), n)
               \/ /\ m.type = "PaymentAuthorized"
                  /\ mailbox' = Append(Tail(mailbox), [m EXCEPT !.type = "OrderRequest"])
<1> DEFINE m == Head(mailbox)
<1>1. CASE HandleRegisterCustomer(m)
  <2>1. mailbox' = Append(Tail(mailbox), [type |-> "SendRestaurantList", customer |-> m.customer])
    BY <1>1 DEF HandleRegisterCustomer
  <2> QED BY <2>1
<1>2. CASE OrderReady(m)
  <2>1. \/ mailbox' = Tail(mailbox)
        \/ mailbox' = Append(Tail(mailbox), [type |-> "FindRider", customer |-> m.customer])
    BY <1>2 DEF OrderReady
  <2> QED BY <2>1
<1>3. CASE PaymentAuthorized(m)
  BY <1>3 DEF PaymentAuthorized
<1>4. CASE mailbox' = Tail(mailbox)
  BY <1>4
<1>5. CASE \/ HandleRegisterRider(m) \/ HandleRegisterRestaurant(m)
           \/ HandleRegisterPaymentSystem(m) \/ SendRestaurantList(m)
           \/ AuthorizePayment(m) \/ PaymentDenied(m) \/ OrderRequest(m)
  BY <1>4, <1>5 DEF HandleRegisterRider, HandleRegisterRestaurant, HandleRegisterPaymentSystem,
     SendRestaurantList, AuthorizePayment, PaymentDenied, OrderRequest
<1>6. CASE \/ OrderCancelled(m) \/ FindRider(m) \/ DeliveryOfferAccepted(m)
           \/ DeliveryDone(m) \/ PaymentExecuted(m)
  BY <1>4, <1>6 DEF OrderCancelled, FindRider, DeliveryOfferAccepted, DeliveryDone, PaymentExecuted
<1> QED BY <1>1, <1>2, <1>3, <1>5, <1>6 DEF Handle

(* A handler removes an order, keeps its price, or enters an authorized    *)
(* one.                                                                    *)
LEMMA HandleTable ==
    ASSUME TypeInv, Handle
    PROVE  LET m == Head(mailbox)
           IN  \A c \in Customers :
                 \/ orders_in_process'[c] = None
                 \/ /\ orders_in_process[c] # None
                    /\ orders_in_process'[c] # None
                    /\ orders_in_process'[c].order_price = orders_in_process[c].order_price
                 \/ /\ m.type = "OrderRequest" /\ m.customer = c
                    /\ orders_in_process'[c].order_price = m.price
<1> DEFINE m == Head(mailbox)
<1> SUFFICES ASSUME NEW c \in Customers
             PROVE  \/ orders_in_process'[c] = None
                    \/ /\ orders_in_process[c] # None
                       /\ orders_in_process'[c] # None
                       /\ orders_in_process'[c].order_price = orders_in_process[c].order_price
                    \/ /\ m.type = "OrderRequest" /\ m.customer = c
                       /\ orders_in_process'[c].order_price = m.price
  OBVIOUS
<1>1. m \in Message
  BY DEF Handle, TypeInv, TypeOK
<1>2. orders_in_process \in [Customers \cup Riders -> Entries]
  BY DEF TypeInv, TypeOK
<1>3. CASE orders_in_process' = orders_in_process
  BY <1>3
<1>4. CASE \E d \in Customers : orders_in_process' = [orders_in_process EXCEPT ![d] = None]
  BY <1>2, <1>4
<1>5. CASE OrderRequest(m)
  <2>1. CASE customers[m.customer] = None
    BY <1>3, <1>5, <2>1 DEF OrderRequest, orderVars
  <2>2. CASE customers[m.customer] # None
    <3>1. m.type = "OrderRequest" /\ m.customer \in Customers
      BY <1>1, <1>5, MessageFields DEF OrderRequest
    <3>2. orders_in_process' = [orders_in_process EXCEPT ![m.customer] = NewOrder(m)]
      BY <1>5, <2>2 DEF OrderRequest
    <3>3. NewOrder(m).order_price = m.price
      BY DEF NewOrder
    <3> QED BY <1>2, <3>1, <3>2, <3>3
  <2> QED BY <2>1, <2>2
<1>6. CASE OrderCancelled(m) \/ DeliveryDone(m) \/ PaymentExecuted(m)
  <2>1. m.customer \in Customers
    BY <1>1, <1>6, MessageFields DEF OrderCancelled, DeliveryDone, PaymentExecuted
  <2>2. \/ orders_in_process' = orders_in_process
        \/ orders_in_process' = [orders_in_process EXCEPT ![m.customer] = None]
    BY <1>6 DEF OrderCancelled, DeliveryDone, PaymentExecuted
  <2> QED BY <1>3, <1>4, <2>1, <2>2
<1>7. CASE DeliveryOfferAccepted(m)
  <2>1. m.customer \in Customers /\ m.rider \in Riders
    BY <1>1, <1>7, MessageFields DEF DeliveryOfferAccepted
  <2> DEFINE order == orders_in_process[m.customer]
             noted == IF customer_connections[m.customer] # 0 /\ customers[m.customer] # None
                      THEN [orders_in_process EXCEPT ![m.rider] =
                             [customer_id |-> m.customer, order_price |-> customers[m.customer],
                              rider_id |-> m.rider]]
                      ELSE orders_in_process
  <2>2. noted[c] = orders_in_process[c] /\ DOMAIN noted = Customers \cup Riders
    BY <1>2, <2>1, OrderFlowAssumption
  <2>3. CASE Assignable(order)
    <3>1. orders_in_process' = [noted EXCEPT ![m.customer] = [order EXCEPT !.rider_id = m.rider]]
      BY <1>7, <2>3 DEF DeliveryOfferAccepted
    <3>2. order # None /\ order \in OrderData
      BY <1>2, <2>1, <2>3 DEF Assignable, Entries
    <3> HIDE DEF noted
    <3>3. CASE c = m.customer
      <4>1. orders_in_process'[c] = [order EXCEPT !.rider_id = m.rider]
        BY <2>2, <3>1, <3>3
      <4>2. [order EXCEPT !.rider_id = m.rider] \in OrderData
        BY <2>1, <3>2 DEF OrderData
      <4>3. [order EXCEPT !.rider_id = m.rider].order_price = order.order_price
        BY <3>2 DEF OrderData
      <4>4. None \notin OrderData
        BY OrderFlowAssumption
      <4> QED BY <3>2, <3>3, <4>1, <4>2, <4>3, <4>4
    <3>4. CASE c # m.customer
      BY <2>2, <3>1, <3>4
    <3> QED BY <3>3, <3>4
  <2>4. CASE ~Assignable(order)
    <3>1. orders_in_process' = noted
      BY <1>7, <2>4 DEF DeliveryOfferAccepted
    <3> HIDE DEF noted
    <3> QED BY <2>2, <3>1
  <2> QED BY <2>3, <2>4
<1>8. CASE \/ HandleRegisterCustomer(m) \/ HandleRegisterRider(m) \/ HandleRegisterRestaurant(m)
           \/ HandleRegisterPaymentSystem(m) \/ SendRestaurantList(m) \/ AuthorizePayment(m)
           \/ PaymentAuthorized(m) \/ PaymentDenied(m) \/ OrderReady(m) \/ FindRider(m)
  BY <1>3, <1>8 DEF HandleRegisterCustomer, HandleRegisterRider, HandleRegisterRestaurant,
     HandleRegisterPaymentSystem, SendRestaurantList, AuthorizePayment, PaymentAuthorized,
     PaymentDenied, OrderReady, FindRider, orderVars
<1> QED BY <1>5, <1>6, <1>7, <1>8 DEF Handle

(* A handler writes to the gateway what it was asked, or a delivered order.*)
LEMMA HandleLines ==
    ASSUME TypeInv, Handle
    PROVE  LET m == Head(mailbox)
           IN  \/ outbox'[Gateway] = outbox[Gateway]
               \/ /\ m.type = "AuthorizePayment"
                  /\ outbox'[Gateway] = Append(outbox[Gateway], m)
               \/ /\ m.type = "DeliveryDone"
                  /\ orders_in_process[m.customer] # None
                  /\ outbox'[Gateway] = Append(outbox[Gateway],
                         [type |-> "ExecutePayment", customer |-> m.customer,
                          price |-> orders_in_process[m.customer].order_price])
<1> DEFINE m == Head(mailbox)
<1>1. m \in Message /\ outbox \in Boxes /\ Gateway \in Clients
  BY DEF Handle, TypeInv, TypeOK, Boxes, Clients
<1>2. \A c \in Customers : \A line \in Line :
        /\ PostCustomer(c, line) \in Boxes
        /\ PostCustomer(c, line)[Gateway] = outbox[Gateway]
  <2>1. \A c \in Customers : c \in Clients /\ c # Gateway
    BY OrderFlowAssumption DEF Clients
  <2> QED BY <1>1, <2>1, PostType, PostElsewhere DEF PostCustomer
<1>3. [type |-> "FinishDelivery"] \in Line
  BY DEF Line
<1>4. CASE outbox' = outbox
  BY <1>4
<1>5. CASE \E box \in Boxes : /\ box[Gateway] = outbox[Gateway]
                              /\ process_pending_requests(box, rider_connections')
  BY <1>5, ProcessElsewhere
<1>6. CASE \E box \in Boxes : /\ box[Gateway] = outbox[Gateway]
                              /\ process_pending_requests(box, rider_connections)
  BY <1>6, ProcessElsewhere
<1>7. CASE HandleRegisterCustomer(m)
  BY <1>1, <1>6, <1>7 DEF HandleRegisterCustomer
<1>8. CASE HandleRegisterRider(m) \/ HandleRegisterRestaurant(m) \/ HandleRegisterPaymentSystem(m)
  BY <1>1, <1>5, <1>6, <1>8 DEF HandleRegisterRider, HandleRegisterRestaurant,
     HandleRegisterPaymentSystem
<1>9. CASE SendRestaurantList(m)
  <2>1. m.customer \in Customers
    BY <1>1, <1>9, MessageFields DEF SendRestaurantList
  <2> DEFINE line == [type |-> "Restaurants", names |->
                        {x \in Nearby[m.customer] : restaurant_connections[x] # 0}]
             box == IF customers[m.customer] = None THEN outbox
                    ELSE PostCustomer(m.customer, line)
  <2>2. line \in Line
    BY <2>1, OrderFlowAssumption DEF Line
  <2>3. process_pending_requests(box, rider_connections)
    BY <1>9 DEF SendRestaurantList
  <2> HIDE DEF line
  <2>4. box \in Boxes /\ box[Gateway] = outbox[Gateway]
    BY <1>1, <1>2, <2>1, <2>2
  <2> QED BY <1>6, <2>3, <2>4
<1>10. CASE AuthorizePayment(m)
  <2>1. m.customer \in Customers /\ m.type = "AuthorizePayment" /\ m \in Line
    <3>1. m.type = "AuthorizePayment"
      BY <1>10 DEF AuthorizePayment
    <3>2. m \in [type : {"AuthorizePayment", "PaymentAuthorized", "PaymentDenied", "OrderRequest"},
                 customer : Customers, price : Prices, restaurant : Restaurants]
      BY <1>1, <3>1, MessageFields
    <3>3. m \in [type : {"AuthorizePayment"}, customer : Customers, price : Prices,
                 restaurant : Restaurants]
      BY <3>1, <3>2
    <3> QED BY <3>1, <3>3 DEF Line
  <2> HIDE DEF m
  <2>2. CASE payment_system # 0
    <3>1. process_pending_requests(Post(outbox, Gateway, payment_system, m), rider_connections)
      BY <1>10, <2>2 DEF AuthorizePayment
    <3>2. Post(outbox, Gateway, payment_system, m) \in Boxes
      BY <1>1, <2>1, PostType
    <3>3. outbox'[Gateway] = Post(outbox, Gateway, payment_system, m)[Gateway]
      BY <3>1, <3>2, ProcessElsewhere
    <3>4. Post(outbox, Gateway, payment_system, m)[Gateway]
            \in {outbox[Gateway], Append(outbox[Gateway], m)}
      BY <1>1 DEF Post, Boxes
    <3> QED BY <2>1, <3>3, <3>4 DEF m
  <2>3. CASE payment_system = 0
    BY <1>2, <1>3, <1>6, <1>10, <2>1, <2>3 DEF AuthorizePayment
  <2> QED BY <2>2, <2>3
<1>11. CASE PaymentAuthorized(m)
  BY <1>1, <1>6, <1>11 DEF PaymentAuthorized
<1>12. CASE PaymentDenied(m) \/ PaymentExecuted(m)
  <2>1. m.customer \in Customers
    BY <1>1, <1>12, MessageFields DEF PaymentDenied, PaymentExecuted
  <2>2. \/ process_pending_requests(outbox, rider_connections)
        \/ process_pending_requests(PostCustomer(m.customer, [type |-> "FinishDelivery"]),
                                    rider_connections)
    BY <1>12 DEF PaymentDenied, PaymentExecuted
  <2> QED BY <1>1, <1>2, <1>3, <1>6, <2>1, <2>2
<1>13. CASE OrderRequest(m)
  <2>1. outbox' = outbox \/ process_pending_requests(outbox, rider_connections)
    BY <1>13 DEF OrderRequest
  <2> QED BY <1>1, <1>4, <1>6, <2>1
<1>14. CASE OrderReady(m)
  BY <1>4, <1>14 DEF OrderReady
<1>15. CASE OrderCancelled(m)
  <2>1. m.customer \in Customers
    BY <1>1, <1>15, MessageFields DEF OrderCancelled
  <2>2. \/ outbox' = outbox
        \/ outbox' = PostCustomer(m.customer, [type |-> "FinishDelivery"])
    BY <1>15 DEF OrderCancelled
  <2> QED BY <1>2, <1>3, <2>1, <2>2
<1>16. CASE FindRider(m)
  <2>1. \/ outbox' = outbox
        \/ \E closest \in closest_riders :
             outbox' = [cl \in Clients |->
                        IF cl \in closest /\ rider_connections[cl] = session[cl]
                        THEN Append(outbox[cl], [type |-> "DeliveryOffer",
                                                 customer |-> m.customer])
                        ELSE outbox[cl]]
    <3>1. CASE customers[m.customer] = None
      BY <1>16, <3>1 DEF FindRider
    <3>2. CASE customers[m.customer] # None
      <4>1. PICK closest \in closest_riders :
              IF closest = {}
              THEN /\ pending_delivery_requests' =
                          Append(pending_delivery_requests, m.customer)
                   /\ UNCHANGED outbox
              ELSE /\ outbox' = [cl \in Clients |->
                        IF cl \in closest /\ rider_connections[cl] = session[cl]
                        THEN Append(outbox[cl], [type |-> "DeliveryOffer",
                                                 customer |-> m.customer])
                        ELSE outbox[cl]]
                   /\ UNCHANGED pending_delivery_requests
        BY <1>16, <3>2 DEF FindRider
      <4> QED BY <4>1
    <3> QED BY <3>1, <3>2
  <2>2. \A closest \in closest_riders : Gateway \notin closest
    BY OrderFlowAssumption DEF closest_riders
  <2> QED BY <1>1, <2>1, <2>2
<1>17. CASE DeliveryOfferAccepted(m)
  <2>1. m.rider \in Riders
    BY <1>1, <1>17, MessageFields DEF DeliveryOfferAccepted
  <2>2. \/ outbox' = outbox
        \/ outbox' = Post(outbox, m.rider, rider_connections[m.rider],
                       [type |-> "DeliveryOfferConfirmed", customer |-> m.customer])
    BY <1>17 DEF DeliveryOfferAccepted
  <2>3. m.rider \in Clients /\ m.rider # Gateway
    BY <2>1, OrderFlowAssumption DEF Clients
  <2> QED BY <1>1, <2>2, <2>3, PostElsewhere
<1>18. CASE DeliveryDone(m)
  <2>1. m.type = "DeliveryDone"
    BY <1>18 DEF DeliveryDone
  <2>2. CASE orders_in_process[m.customer] = None
    BY <1>18, <2>2 DEF DeliveryDone
  <2>3. CASE orders_in_process[m.customer] # None
    <3> DEFINE line == [type |-> "ExecutePayment", customer |-> m.customer,
                        price |-> orders_in_process[m.customer].order_price]
    <3>1. outbox' = Post(outbox, Gateway, payment_system, line)
      BY <1>18, <2>3 DEF DeliveryDone
    <3> HIDE DEF line
    <3>2. outbox'[Gateway] \in {outbox[Gateway], Append(outbox[Gateway], line)}
      BY <1>1, <3>1 DEF Post, Boxes
    <3> QED BY <2>1, <2>3, <3>2 DEF line
  <2> QED BY <2>2, <2>3
<1> QED BY <1>7, <1>8, <1>9, <1>10, <1>11, <1>12, <1>13, <1>14, <1>15, <1>16, <1>17, <1>18
    DEF Handle

(* The manager itself neither authorizes nor charges.                      *)
LEMMA HandleLog ==
    ASSUME Handle
    PROVE  /\ log \subseteq log'
           /\ \A c, p : <<"charged", c, p>> \in log' => <<"charged", c, p>> \in log
<1> DEFINE m == Head(mailbox)
<1>1. CASE log' = log
  BY <1>1
<1>2. CASE \E c, p : log' = log \cup {<<"refused", c, p>>}
  BY <1>2
<1>3. CASE AuthorizePayment(m) \/ PaymentDenied(m)
  BY <1>1, <1>2, <1>3 DEF AuthorizePayment, PaymentDenied, Note
<1>4. CASE \/ HandleRegisterCustomer(m) \/ HandleRegisterRider(m) \/ HandleRegisterRestaurant(m)
           \/ HandleRegisterPaymentSystem(m) \/ SendRestaurantList(m) \/ PaymentAuthorized(m)
           \/ OrderRequest(m)
  BY <1>1, <1>4 DEF HandleRegisterCustomer, HandleRegisterRider, HandleRegisterRestaurant,
     HandleRegisterPaymentSystem, SendRestaurantList, PaymentAuthorized, OrderRequest, history
<1>5. CASE \/ OrderReady(m) \/ OrderCancelled(m) \/ FindRider(m) \/ DeliveryOfferAccepted(m)
           \/ DeliveryDone(m) \/ PaymentExecuted(m)
  BY <1>1, <1>5 DEF OrderReady, OrderCancelled, FindRider, DeliveryOfferAccepted, DeliveryDone,
     PaymentExecuted, history
<1> QED BY <1>3, <1>4, <1>5 DEF Handle

(* The handlers of the leader charge only what was authorized.             *)
LEMMA AuthHandle ==
    ASSUME TypeInv, AuthInv, Handle
    PROVE  AuthInv'
<1> DEFINE m == Head(mailbox)
<1>1. /\ mailbox # <<>> /\ mailbox \in Seq(Message) /\ m \in Message
      /\ Tail(mailbox) \in Seq(Message) /\ outbox[Gateway] \in Seq(Line)
  BY DEF Handle, TypeInv, TypeOK, Clients
<1>2. /\ log \subseteq log'
      /\ AuthMail(Tail(mailbox), log') /\ AuthTable(orders_in_process, log')
      /\ AuthLines(outbox[Gateway], log')
  BY <1>1, HandleLog, AuthGrows, AuthMailTail
<1>3. m.type \in {"PaymentAuthorized", "OrderRequest"}
        => <<"authorized", m.customer, m.price>> \in log'
  <2>1. m = mailbox[1] /\ 1 \in 1 .. Len(mailbox)
    BY <1>1
  <2> QED BY <1>2, <2>1 DEF AuthInv, AuthMail
<1>4. AuthMail(mailbox', log')
  <2>1. CASE mailbox' = Tail(mailbox)
    BY <1>2, <2>1
  <2>2. CASE \E n : /\ n.type \in {"SendRestaurantList", "FindRider"}
                    /\ mailbox' = Append(Tail(mailbox), n)
    <3>1. PICK n : /\ n.type \in {"SendRestaurantList", "FindRider"}
                   /\ mailbox' = Append(Tail(mailbox), n)
      BY <2>2
    <3>2. n.type \notin {"PaymentAuthorized", "OrderRequest"}
      BY <3>1
    <3> QED BY <1>1, <1>2, <3>1, <3>2, AuthMailAppend
  <2>3. CASE /\ m.type = "PaymentAuthorized"
             /\ mailbox' = Append(Tail(mailbox), [m EXCEPT !.type = "OrderRequest"])
    <3>1. m \in [type : {"AuthorizePayment", "PaymentAuthorized", "PaymentDenied", "OrderRequest"},
                 customer : Customers, price : Prices, restaurant : Restaurants]
      BY <1>1, <2>3, MessageFields
    <3>2. /\ [m EXCEPT !.type = "OrderRequest"].customer = m.customer
          /\ [m EXCEPT !.type = "OrderRequest"].price = m.price
      BY <3>1
    <3>3. <<"authorized", m.customer, m.price>> \in log'
      BY <1>3, <2>3
    <3> HIDE DEF m
    <3> QED BY <1>1, <1>2, <2>3, <3>2, <3>3, AuthMailAppend
  <2> QED BY <2>1, <2>2, <2>3, HandleMail
<1>5. AuthTable(orders_in_process', log')
  <2> SUFFICES ASSUME NEW c \in Customers, orders_in_process'[c] # None
               PROVE  <<"authorized", c, orders_in_process'[c].order_price>> \in log'
    BY DEF AuthTable
  <2>1. \/ /\ orders_in_process[c] # None
           /\ orders_in_process'[c].order_price = orders_in_process[c].order_price
        \/ /\ m.type = "OrderRequest" /\ m.customer = c
           /\ orders_in_process'[c].order_price = m.price
    BY HandleTable
  <2> QED BY <1>2, <1>3, <2>1 DEF AuthTable
<1>6. AuthLines(outbox'[Gateway], log')
  <2>1. CASE outbox'[Gateway] = outbox[Gateway]
    BY <1>2, <2>1
  <2>2. CASE /\ m.type = "AuthorizePayment"
             /\ outbox'[Gateway] = Append(outbox[Gateway], m)
    BY <1>1, <1>2, <2>2, AuthLinesAppend
  <2>3. CASE /\ m.type = "DeliveryDone"
             /\ orders_in_process[m.customer] # None
             /\ outbox'[Gateway] = Append(outbox[Gateway],
                    [type |-> "ExecutePayment", customer |-> m.customer,
                     price |-> orders_in_process[m.customer].order_price])
    <3>1. m.customer \in Customers
      BY <1>1, <2>3, MessageFields
    <3>2. <<"authorized", m.customer, orders_in_process[m.customer].order_price>> \in log'
      BY <1>2, <2>3, <3>1 DEF AuthTable
    <3> QED BY <1>1, <1>2, <2>3, <3>2, AuthLinesAppend
  <2> QED BY <2>1, <2>2, <2>3, HandleLines
<1>7. ChargedWasAuthorized'
  BY <1>2, HandleLog DEF AuthInv, ChargedWasAuthorized
<1> QED BY <1>4, <1>5, <1>6, <1>7 DEF AuthInv

(* A step that adds a message of another type and nothing to the lines for *)
(* the payment system.                                                     *)
LEMMA AuthAside ==
    ASSUME TypeInv, AuthInv, log \subseteq log',
           \A c, p : <<"charged", c, p>> \in log' => <<"charged", c, p>> \in log,
           \/ mailbox' = mailbox
           \/ \E n : /\ n.type \notin {"PaymentAuthorized", "OrderRequest"}
                     /\ mailbox' = Append(mailbox, n),
           orders_in_process' = orders_in_process,
           outbox'[Gateway] \in {outbox[Gateway], <<>>}
    PROVE  AuthInv'
<1>1. /\ AuthMail(mailbox, log') /\ AuthTable(orders_in_process, log')
      /\ AuthLines(outbox[Gateway], log')
  BY AuthGrows
<1>2. AuthMail(mailbox', log')
  <2>1. mailbox \in Seq(Message)
    BY DEF TypeInv, TypeOK
  <2> QED BY <1>1, <2>1, AuthMailAppend
<1>3. AuthLines(<<>>, log')
  BY DEF AuthLines
<1>4. ChargedWasAuthorized'
  BY DEF AuthInv, ChargedWasAuthorized
<1> QED BY <1>1, <1>2, <1>3, <1>4 DEF AuthInv

(* The customers, riders and restaurants charge nothing.                   *)
LEMMA AuthClients ==
    ASSUME TypeInv, AuthInv,
           \/ \E c \in Customers : StartCustomer(c) \/ Customer(c) \/ GetRestaurants(c)
           \/ \E r \in Riders : StartRider(r) \/ Rider(r)
           \/ \E x \in Restaurants : StartRestaurant(x) \/ ContinueOrder(x)
           \/ StartPaymentSystem
    PROVE  AuthInv'
<1>1. /\ outbox \in Boxes /\ Gateway \in Clients
      /\ \A cl \in Customers \cup Riders \cup Restaurants : cl # Gateway
  BY OrderFlowAssumption DEF TypeInv, TypeOK, Boxes, Clients
<1>2. ASSUME NEW cl \in Clients, NEW registration, Restarted(cl, registration),
             registration.type \notin {"PaymentAuthorized", "OrderRequest"}
      PROVE  AuthInv'
  <2>1. outbox'[Gateway] \in {outbox[Gateway], <<>>}
    BY <1>1, <1>2 DEF Restarted, Boxes
  <2>2. /\ mailbox' = Append(mailbox, registration)
        /\ orders_in_process' = orders_in_process /\ log' = log
    BY <1>2 DEF Restarted, orderVars, history
  <2> QED BY <1>2, <2>1, <2>2, AuthAside
<1>3. ASSUME NEW c \in Customers, StartCustomer(c) PROVE AuthInv'
  <2>1. Restarted(c, [type |-> "RegisterCustomer", customer |-> c, session |-> session[c] + 1])
    BY <1>3 DEF StartCustomer
  <2> QED BY <1>2, <2>1 DEF Clients
<1>4. ASSUME NEW r \in Riders, StartRider(r) PROVE AuthInv'
  <2>1. Restarted(r, [type |-> "RegisterRider", rider |-> r, session |-> session[r] + 1])
    BY <1>4 DEF StartRider
  <2> QED BY <1>2, <2>1 DEF Clients
<1>5. ASSUME NEW x \in Restaurants, StartRestaurant(x) PROVE AuthInv'
  <2>1. Restarted(x, [type |-> "RegisterRestaurant", restaurant |-> x, session |-> session[x] + 1])
    BY <1>5 DEF StartRestaurant
  <2> QED BY <1>2, <2>1 DEF Clients
<1>6. CASE StartPaymentSystem
  <2>1. Restarted(Gateway, [type |-> "RegisterPaymentSystem", session |-> session[Gateway] + 1])
    BY <1>6 DEF StartPaymentSystem
  <2> QED BY <1>2, <2>1 DEF Clients
<1>7. ASSUME NEW c \in Customers, ChooseRestaurant(c) PROVE AuthInv'
  <2>1. PICK x : mailbox' = Append(mailbox, [type |-> "AuthorizePayment",
              customer |-> c, price |-> placed[c] + 1, restaurant |-> x])
    BY <1>7 DEF ChooseRestaurant
  <2>2. outbox'[Gateway] = outbox[Gateway] /\ orders_in_process' = orders_in_process /\ log' = log
    BY <1>1, <1>7 DEF ChooseRestaurant, Boxes, managerVars, orderVars, history
  <2> QED BY <2>1, <2>2, AuthAside
<1>8. ASSUME NEW c \in Customers, FinishDelivery(c) PROVE AuthInv'
  <2>1. /\ outbox'[Gateway] = outbox[Gateway] /\ mailbox' = mailbox
        /\ orders_in_process' = orders_in_process /\ log' = log
    BY <1>1, <1>8 DEF FinishDelivery, Boxes, managerVars, orderVars, history
  <2> QED BY <2>1, AuthAside
<1>9. ASSUME NEW c \in Customers, GetRestaurants(c) PROVE AuthInv'
  <2>1. mailbox' = Append(mailbox, [type |-> "RegisterCustomer", customer |-> c,
                                    session |-> session[c]])
    BY <1>9 DEF GetRestaurants
  <2>2. outbox'[Gateway] = outbox[Gateway] /\ orders_in_process' = orders_in_process /\ log' = log
    BY <1>9 DEF GetRestaurants, managerVars, orderVars, history
  <2> QED BY <2>1, <2>2, AuthAside
<1>10. ASSUME NEW r \in Riders, DeliveryOffer(r) PROVE AuthInv'
  <2>1. \/ mailbox' = mailbox
        \/ mailbox' = Append(mailbox, [type |-> "DeliveryOfferAccepted",
                 customer |-> Head(outbox[r]).customer, rider |-> r])
    BY <1>10 DEF DeliveryOffer
  <2>2. outbox'[Gateway] = outbox[Gateway] /\ orders_in_process' = orders_in_process /\ log' = log
    BY <1>1, <1>10 DEF DeliveryOffer, Boxes, managerVars, orderVars, history
  <2> QED BY <2>1, <2>2, AuthAside
<1>11. ASSUME NEW r \in Riders, DeliveryOfferConfirmed(r) PROVE AuthInv'
  <2>1. PICK lines : outbox' = [outbox EXCEPT ![r] = lines]
    BY <1>11 DEF DeliveryOfferConfirmed
  <2>2. /\ outbox'[Gateway] = outbox[Gateway] /\ mailbox' = mailbox
        /\ orders_in_process' = orders_in_process /\ log' = log
    BY <1>1, <1>11, <2>1 DEF DeliveryOfferConfirmed, Boxes, managerVars, orderVars, history
  <2> QED BY <2>2, AuthAside
<1>12. ASSUME NEW r \in Riders, GoToCustomerLocation(r) PROVE AuthInv'
  <2>1. \/ mailbox' = mailbox
        \/ mailbox' = Append(mailbox, [type |-> "DeliveryDone",
                 customer |-> customer_id[r], rider |-> r])
    BY <1>12 DEF GoToCustomerLocation
  <2>2. outbox'[Gateway] = outbox[Gateway] /\ orders_in_process' = orders_in_process /\ log' = log
    BY <1>1, <1>12 DEF GoToCustomerLocation, Boxes, managerVars, orderVars, history
  <2> QED BY <2>1, <2>2, AuthAside
<1>13. ASSUME NEW x \in Restaurants, ContinueOrder(x) PROVE AuthInv'
  <2>1. PICK o \in cooking[x], answer \in {"OrderReady", "OrderCancelled"} :
          /\ mailbox' = Append(mailbox, [type |-> answer, customer |-> o.customer])
          /\ Note(IF answer = "OrderReady" THEN "ready" ELSE "cancelled", o.customer, o.price)
          /\ UNCHANGED <<managerVars, outbox, clientVars, assigned>>
    BY <1>13 DEF ContinueOrder
  <2>2. [type |-> answer, customer |-> o.customer].type \notin {"PaymentAuthorized", "OrderRequest"}
    OBVIOUS
  <2>3. /\ log \subseteq log'
        /\ \A c, p : <<"charged", c, p>> \in log' => <<"charged", c, p>> \in log
    BY <2>1 DEF Note
  <2>4. outbox' = outbox /\ orders_in_process' = orders_in_process
    BY <2>1 DEF managerVars, orderVars
  <2> QED BY <2>1, <2>2, <2>3, <2>4, AuthAside
<1> QED BY <1>3, <1>4, <1>5, <1>6, <1>7, <1>8, <1>9, <1>10, <1>11, <1>12, <1>13
    DEF Customer, Rider

(* The payment system charges only what it was told to.                    *)
LEMMA AuthPaymentSystem ==
    ASSUME TypeInv, AuthInv, PaymentSystem
    PROVE  AuthInv'
<1> DEFINE m == Head(outbox[Gateway])
<1>1. /\ outbox[Gateway] \in Seq(Line) /\ outbox[Gateway] # <<>> /\ m \in Line
      /\ outbox' = [outbox EXCEPT ![Gateway] = Tail(@)]
      /\ orders_in_process' = orders_in_process /\ mailbox \in Seq(Message)
  BY DEF PaymentSystem, ExecuteAutorization, ExecutePayment, Taken, TypeInv, TypeOK, Clients,
     managerVars, orderVars
<1>2. outbox'[Gateway] = Tail(outbox[Gateway])
  BY <1>1 DEF TypeInv, TypeOK, Clients
<1>3. ASSUME log \subseteq log' PROVE AuthLines(outbox'[Gateway], log') /\ AuthMail(mailbox, log')
                                       /\ AuthTable(orders_in_process', log')
  BY <1>1, <1>2, <1>3, AuthGrows, AuthLinesTail
<1>4. CASE ExecuteAutorization
  <2>1. PICK answer \in {"PaymentAuthorized", "PaymentDenied"} :
          /\ mailbox' = Append(mailbox, [m EXCEPT !.type = answer])
          /\ IF answer = "PaymentAuthorized" THEN Note("authorized", m.customer, m.price)
             ELSE UNCHANGED log
    BY <1>4 DEF ExecuteAutorization
  <2>2. m \in [type : {"AuthorizePayment"}, customer : Customers, price : Prices,
               restaurant : Restaurants]
    BY <1>1, <1>4, LineFields DEF ExecuteAutorization, Taken
  <2> HIDE DEF m
  <2>3. /\ [m EXCEPT !.type = answer].type = answer
        /\ [m EXCEPT !.type = answer].customer = m.customer
        /\ [m EXCEPT !.type = answer].price = m.price
    BY <2>2
  <2>4. /\ log \subseteq log'
        /\ answer = "PaymentAuthorized" => <<"authorized", m.customer, m.price>> \in log'
        /\ \A c, p : <<"charged", c, p>> \in log' => <<"charged", c, p>> \in log
    BY <2>1 DEF Note
  <2>5. AuthMail(mailbox', log')
    BY <1>1, <1>3, <2>1, <2>3, <2>4, AuthMailAppend
  <2>6. ChargedWasAuthorized'
    BY <2>4 DEF AuthInv, ChargedWasAuthorized
  <2> QED BY <1>3, <2>4, <2>5, <2>6 DEF AuthInv
<1>5. CASE ExecutePayment
  <2>1. /\ mailbox' = Append(mailbox, [m EXCEPT !.type = "PaymentExecuted"])
        /\ log' = log \cup {<<"charged", m.customer, m.price>>}
        /\ m.type = "ExecutePayment"
    BY <1>5 DEF ExecutePayment, Note, Taken
  <2>2. m \in [type : {"ExecutePayment"}, customer : Customers, price : Prices]
    BY <1>1, <2>1, LineFields
  <2>3. <<"authorized", m.customer, m.price>> \in log
    <3>1. m = outbox[Gateway][1] /\ 1 \in 1 .. Len(outbox[Gateway])
      BY <1>1
    <3> QED BY <2>1, <3>1 DEF AuthInv, AuthLines
  <2> HIDE DEF m
  <2>4. [m EXCEPT !.type = "PaymentExecuted"].type = "PaymentExecuted"
    BY <2>2
  <2>5. AuthMail(mailbox', log')
    BY <1>1, <1>3, <2>1, <2>4, AuthMailAppend
  <2>6. ChargedWasAuthorized'
    BY <2>1, <2>3 DEF AuthInv, ChargedWasAuthorized
  <2> QED BY <1>3, <2>1, <2>5, <2>6 DEF AuthInv
<1> QED BY <1>4, <1>5 DEF PaymentSystem

(* AuthInv, the strengthening of ChargedWasAuthorized, holds always.       *)
LEMMA SpecAuthInv == Spec => []AuthInv
<1>1. Init => AuthInv
  BY OrderFlowAssumption
     DEF Init, AuthInv, AuthMail, AuthTable, AuthLines, ChargedWasAuthorized, Clients
<1>2. TypeInv /\ AuthInv /\ [Next]_vars => AuthInv'
  <2> SUFFICES ASSUME TypeInv, AuthInv, [Next]_vars PROVE AuthInv'
    OBVIOUS
  <2>1. CASE Next
    BY <2>1, AuthHandle, AuthClients, AuthPaymentSystem DEF Next
  <2>2. CASE UNCHANGED vars
    <3>1. /\ mailbox' = mailbox /\ orders_in_process' = orders_in_process
          /\ outbox' = outbox /\ log' = log
      BY <2>2 DEF vars, orderVars, history
    <3> QED BY <3>1, AuthAside
  <2> QED BY <2>1, <2>2
<1> QED BY <1>1, <1>2, SpecTypeInv, PTL DEF Spec

(* No customer pays for an order the payment system did not authorize,     *)
(* whoever is restarted and however the messages are interleaved.          *)
THEOREM ChargedCorrect == Spec => []ChargedWasAuthorized
<1>1. AuthInv => ChargedWasAuthorized
  BY DEF AuthInv
<1> QED BY <1>1, SpecAuthInv, PTL
=============================================================================
