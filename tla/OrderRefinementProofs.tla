------------------------ MODULE OrderRefinementProofs -----------------------
(***************************************************************************)
(* Every step of OrderFlow is a step of OrderLifecycle for one order, or   *)
(* none, for any number of customers, riders and restaurants, any of which *)
(* may be killed and started again at any time, as long as each customer   *)
(* places one order.                                                       *)
(***************************************************************************)
EXTENDS OrderRefinement, OrderOnceProofs

Mine(c) == [customer |-> c, price |-> 1]

Logged(event, c) == <<event, c, 1>> \in log

Asked(c) == Pending(c, 1) \/ Sent(c, 1)

----------------------------------------------------------------------------
(* A customer that has ordered is known to the manager, so that the end of *)
(* its order is never ignored.                                             *)
Connected ==
    /\ \A c \in Customers :
          /\ placed[c] > 0 \/ prompts[c] > 0 \/ outbox[c] # <<>>
               => customer_connections[c] # 0
          /\ prompts[c] > 0 \/ outbox[c] # <<>> => session[c] # 0
    /\ \A i \in 1 .. Len(mailbox) :
          mailbox[i].type = "RegisterCustomer" => mailbox[i].session # 0

(* Only an order that is ready is offered, and only one that was given to  *)
(* a rider is delivered: what the messages and lines say is backed by the  *)
(* log l and the assignments a.                                            *)
Backed(m, l, a) ==
    /\ m.type \in {"OrderReady", "FindRider", "DeliveryOffer",
                   "DeliveryOfferAccepted"}
         => <<"ready", m.customer, 1>> \in l
    /\ m.type \in {"DeliveryOfferConfirmed", "DeliveryDone", "ExecutePayment"}
         => \E r \in Riders : <<r, m.customer, 1>> \in a

AllBacked(s, l, a) == \A i \in 1 .. Len(s) : Backed(s[i], l, a)

QueueBacked(queue, l) ==
    \A i \in 1 .. Len(queue) : <<"ready", queue[i], 1>> \in l

Offered ==
    /\ AllBacked(mailbox, log, assigned)
    /\ \A cl \in Clients : AllBacked(outbox[cl], log, assigned)
    /\ QueueBacked(pending_delivery_requests, log)
    /\ \A r \in Riders : busy[r] => Given(customer_id[r], 1)
    /\ \A c \in Customers : /\ Given(c, 1) => Logged("ready", c)
                            /\ Logged("charged", c) => Given(c, 1)

----------------------------------------------------------------------------
(* The registration of the restaurant process that runs now.               *)
Current(m) ==
    /\ m.type = "RegisterRestaurant"
    /\ m.session = session[m.restaurant]

(* No registration comes twice, and a restaurant whose registration is on  *)
(* its way has nothing to cook yet.                                        *)
Registering ==
    /\ \A x \in Restaurants : restaurant_connections[x] <= session[x]
    /\ \A i \in 1 .. Len(mailbox) :
          mailbox[i].type = "RegisterRestaurant" =>
              /\ mailbox[i].session <= session[mailbox[i].restaurant]
              /\ \A j \in 1 .. Len(mailbox) : mailbox[j] = mailbox[i] => j = i
    /\ \A i \in 1 .. Len(mailbox) :
          Current(mailbox[i]) =>
              LET x == mailbox[i].restaurant
              IN  restaurant_connections[x] # session[x] /\ cooking[x] = {}

(* The payment of an order.                                                *)
Payment(c) ==
    /\ Logged("authorized", c) => placed[c] > 0 /\ ~Logged("refused", c)
    /\ \/ Held(mailbox, {"AuthorizePayment", "PaymentDenied"}, c, 1)
       \/ Sent(c, 1)
       => ~Logged("authorized", c)

(* The order of c at the restaurant x.                                     *)
At(c, x) == Mine(c) \in cooking[x] \cup pending_orders[x]

(* The message m makes the restaurant cook the order of c again.           *)
Resends(m, c) == Current(m) /\ Mine(c) \in pending_orders[m.restaurant]

(* The restaurant's answer for the order of c is in the mailbox, and       *)
(* before anything that makes it cook the order again.                     *)
Ahead(type, c) ==
    \E i \in 1 .. Len(mailbox) :
        /\ mailbox[i].type = type /\ mailbox[i].customer = c
        /\ \A j \in 1 .. i : ~Resends(mailbox[j], c)

Kitchen(c) ==
    /\ Asked(c) => /\ ~Logged("ready", c) /\ ~Logged("cancelled", c)
                   /\ \A x \in Restaurants : ~At(c, x)
    /\ \A x, y \in Restaurants : At(c, x) /\ At(c, y) => x = y
    /\ \/ Logged("ready", c) \/ Logged("cancelled", c)
       \/ \E x \in Restaurants : At(c, x)
       => Logged("authorized", c)
    /\ \A x \in Restaurants :
          /\ Mine(c) \in cooking[x] /\ Logged("ready", c)
               => Logged("cancelled", c)
          /\ Mine(c) \in pending_orders[x] /\ Logged("ready", c)
               => Logged("cancelled", c) \/ Ahead("OrderReady", c)
    /\ InProcess(c, 1) /\ Logged("cancelled", c) =>
          /\ ~Logged("ready", c) /\ Ahead("OrderCancelled", c)
          /\ \A x \in Restaurants : Mine(c) \notin cooking[x]

StoryInv ==
    /\ Connected
    /\ Offered
    /\ Registering
    /\ \A c \in Customers : Payment(c) /\ Kitchen(c)

----------------------------------------------------------------------------
(* With one order for each customer there is one price.                    *)
LEMMA OnePrice ==
    ASSUME MaxOrders = 1
    PROVE  Prices = {1} /\ \A o \in Orders : o = Mine(o.customer)
BY DEF Prices, Orders, Mine

(* Whatever is backed stays so as the log and the assignments grow.        *)
LEMMA BackedGrows ==
    ASSUME NEW l, NEW k, NEW a, NEW b, l \subseteq k, a \subseteq b
    PROVE  /\ \A m : Backed(m, l, a) => Backed(m, k, b)
           /\ \A s : AllBacked(s, l, a) => AllBacked(s, k, b)
           /\ \A queue : QueueBacked(queue, l) => QueueBacked(queue, k)
<1>1. \A m : Backed(m, l, a) => Backed(m, k, b)
  BY DEF Backed
<1> QED BY <1>1 DEF AllBacked, QueueBacked

(* The first item, the others, and an item that is appended.               *)
LEMMA BackedTail ==
    ASSUME NEW S, NEW s \in Seq(S), s # <<>>, NEW l, NEW a, AllBacked(s, l, a)
    PROVE  Backed(Head(s), l, a) /\ AllBacked(Tail(s), l, a)
<1>1. /\ Len(Tail(s)) = Len(s) - 1 /\ Len(s) \in Nat \ {0} /\ Head(s) = s[1]
      /\ \A i \in 1 .. Len(s) - 1 : Tail(s)[i] = s[i + 1]
  OBVIOUS
<1> QED BY <1>1 DEF AllBacked

(* A list stays backed with a backed element at its end.                   *)
LEMMA BackedAppend ==
    ASSUME NEW S, NEW s \in Seq(S), NEW m, NEW l, NEW a,
           AllBacked(s, l, a), Backed(m, l, a)
    PROVE  AllBacked(Append(s, m), l, a)
<1>1. /\ Len(Append(s, m)) = Len(s) + 1 /\ Len(s) \in Nat
      /\ \A i \in 1 .. Len(s) : Append(s, m)[i] = s[i]
      /\ Append(s, m)[Len(s) + 1] = m
  OBVIOUS
<1>2. \A i \in 1 .. Len(Append(s, m)) :
          i \in 1 .. Len(s) \/ i = Len(s) + 1
  BY <1>1
<1> QED BY <1>1, <1>2 DEF AllBacked

(* Lines that are written behind others.                                   *)
LEMMA BackedConcat ==
    ASSUME NEW S, NEW s \in Seq(S), NEW q \in Seq(S), NEW l, NEW a,
           AllBacked(s, l, a), AllBacked(q, l, a)
    PROVE  AllBacked(s \o q, l, a)
<1>1. /\ Len(s \o q) = Len(s) + Len(q) /\ Len(s) \in Nat /\ Len(q) \in Nat
      /\ \A i \in 1 .. Len(s) : (s \o q)[i] = s[i]
      /\ \A i \in 1 .. Len(q) : (s \o q)[Len(s) + i] = q[i]
  OBVIOUS
<1>2. ASSUME NEW i \in 1 .. Len(s \o q)
      PROVE  Backed((s \o q)[i], l, a)
  <2>1. CASE i \in 1 .. Len(s)
    BY <1>1, <2>1 DEF AllBacked
  <2>2. CASE i \notin 1 .. Len(s)
    <3>1. i - Len(s) \in 1 .. Len(q) /\ i = Len(s) + (i - Len(s))
      BY <1>1, <2>2
    <3> QED BY <1>1, <3>1 DEF AllBacked
  <2> QED BY <2>1, <2>2
<1> QED BY <1>2 DEF AllBacked

(* A line that is inserted among others.                                   *)
LEMMA BackedInsert ==
    ASSUME NEW S, NEW s \in Seq(S), NEW m \in S, NEW l, NEW a,
           NEW i \in 1 .. Len(s) + 1, AllBacked(s, l, a), Backed(m, l, a)
    PROVE  AllBacked(InsertAt(s, i, m), l, a)
<1>1. /\ SubSeq(s, 1, i - 1) \in Seq(S) /\ SubSeq(s, i, Len(s)) \in Seq(S)
      /\ Len(SubSeq(s, 1, i - 1)) = i - 1
      /\ Len(SubSeq(s, i, Len(s))) = Len(s) - i + 1
      /\ \A j \in 1 .. i - 1 : SubSeq(s, 1, i - 1)[j] = s[j]
      /\ \A j \in 1 .. Len(s) - i + 1 : SubSeq(s, i, Len(s))[j] = s[i + j - 1]
      /\ <<m>> \in Seq(S) /\ Len(<<m>>) = 1 /\ <<m>>[1] = m
      /\ Len(s) \in Nat
  OBVIOUS
<1>2. /\ AllBacked(SubSeq(s, 1, i - 1), l, a)
      /\ AllBacked(SubSeq(s, i, Len(s)), l, a)
      /\ AllBacked(<<m>>, l, a)
  <2>1. \A j \in 1 .. i - 1 : j \in 1 .. Len(s)
    BY <1>1
  <2>2. \A j \in 1 .. Len(s) - i + 1 : i + j - 1 \in 1 .. Len(s)
    BY <1>1
  <2> QED BY <1>1, <2>1, <2>2 DEF AllBacked
<1>3. InsertAt(s, i, m) =
          (SubSeq(s, 1, i - 1) \o <<m>>) \o SubSeq(s, i, Len(s))
  BY DEF InsertAt
<1>4. SubSeq(s, 1, i - 1) \o <<m>> \in Seq(S)
  BY <1>1
<1>5. AllBacked(SubSeq(s, 1, i - 1) \o <<m>>, l, a)
  BY <1>1, <1>2, BackedConcat
<1> HIDE DEF Backed
<1> QED BY <1>1, <1>2, <1>3, <1>4, <1>5, BackedConcat

----------------------------------------------------------------------------
(* What is offered and what is delivered.                                  *)

BoxBacked(box, l, a) == \A cl \in Clients : AllBacked(box[cl], l, a)

(* A line that is posted.                                                  *)
LEMMA PostBacked ==
    ASSUME NEW box \in Boxes, NEW cl \in Clients, NEW s, NEW line \in Line,
           NEW l, NEW a, BoxBacked(box, l, a), Backed(line, l, a)
    PROVE  BoxBacked(Post(box, cl, s, line), l, a)
<1>1. /\ box[cl] \in Seq(Line)
      /\ AllBacked(Append(box[cl], line), l, a)
  BY BackedAppend DEF Boxes, BoxBacked
<1> QED BY <1>1 DEF Post, BoxBacked, Boxes

(* The offers for the requests that were queued.                           *)
LEMMA ProcessBacked ==
    ASSUME NEW box \in Boxes, NEW riders, NEW l, NEW a,
           pending_delivery_requests \in Seq(Customers),
           process_pending_requests(box, riders),
           BoxBacked(box, l, a), QueueBacked(pending_delivery_requests, l)
    PROVE  /\ BoxBacked(outbox', l, a)
           /\ QueueBacked(pending_delivery_requests', l)
<1> DEFINE known == {r \in Riders : riders[r] # 0}
           offers == [i \in 1 .. Len(pending_delivery_requests) |->
                        [type |-> "DeliveryOffer",
                         customer |-> pending_delivery_requests[i]]]
<1>1. CASE known = {}
  BY <1>1 DEF process_pending_requests
<1>2. CASE known # {}
  <2>1. /\ offers \in Seq(Line)
        /\ AllBacked(offers, l, a)
    <3>1. \A i \in 1 .. Len(pending_delivery_requests) :
              pending_delivery_requests[i] \in Customers
      OBVIOUS
    <3>2. \A i \in 1 .. Len(pending_delivery_requests) :
            [type |-> "DeliveryOffer",
             customer |-> pending_delivery_requests[i]] \in Line
      BY <3>1 DEF Line
    <3>3. offers \in Seq(Line) /\ Len(offers) = Len(pending_delivery_requests)
      BY <3>2
    <3>4. AllBacked(offers, l, a)
      BY <3>3 DEF AllBacked, Backed, QueueBacked
    <3> QED BY <3>3, <3>4
  <2>2. PICK r \in known :
           /\ outbox' = IF riders[r] = session[r]
                        THEN [box EXCEPT ![r] = @ \o offers] ELSE box
           /\ pending_delivery_requests' = <<>>
    BY <1>2 DEF process_pending_requests
  <2>3. r \in Clients /\ box[r] \in Seq(Line) /\ AllBacked(box[r], l, a)
    BY DEF Boxes, Clients, BoxBacked
  <2> HIDE DEF offers
  <2>4. AllBacked(box[r] \o offers, l, a)
    BY <2>1, <2>3, BackedConcat
  <2>5. BoxBacked(outbox', l, a)
    BY <2>2, <2>3, <2>4 DEF BoxBacked, Boxes
  <2> QED BY <2>2, <2>5 DEF QueueBacked
<1> QED BY <1>1, <1>2

(* The log and the assignments only grow.                                  *)
LEMMA HistoryGrows ==
    ASSUME [Next]_vars
    PROVE  log \subseteq log' /\ assigned \subseteq assigned'
<1> DEFINE m == Head(mailbox)
<1>1. CASE DeliveryOfferAccepted(m)
  BY <1>1 DEF DeliveryOfferAccepted
<1>2. CASE \/ HandleRegisterCustomer(m) \/ HandleRegisterRider(m)
           \/ HandleRegisterRestaurant(m) \/ HandleRegisterPaymentSystem(m)
           \/ SendRestaurantList(m) \/ AuthorizePayment(m)
           \/ PaymentAuthorized(m) \/ PaymentDenied(m) \/ OrderRequest(m)
  BY <1>2 DEF HandleRegisterCustomer, HandleRegisterRider,
     HandleRegisterRestaurant, HandleRegisterPaymentSystem, SendRestaurantList,
     AuthorizePayment, PaymentAuthorized, PaymentDenied, OrderRequest, Note,
     history
<1>3. CASE \/ OrderReady(m) \/ OrderCancelled(m) \/ FindRider(m)
           \/ DeliveryDone(m) \/ PaymentExecuted(m)
  BY <1>3 DEF OrderReady, OrderCancelled, FindRider, DeliveryDone,
     PaymentExecuted, history
<1>4. CASE Next /\ ~Handle
  BY <1>4
     DEF Next, StartCustomer, StartRider, StartRestaurant, StartPaymentSystem,
         Restarted, Customer, ChooseRestaurant, FinishDelivery, GetRestaurants,
         Rider, DeliveryOffer, DeliveryOfferConfirmed, GoToCustomerLocation,
         ContinueOrder, PaymentSystem, ExecuteAutorization, ExecutePayment,
         Note, history
<1>5. CASE UNCHANGED vars
  BY <1>5 DEF vars, history
<1> QED BY <1>1, <1>2, <1>3, <1>4, <1>5 DEF Handle

(* What was backed before a step is backed after it.                       *)
LEMMA StillBacked ==
    ASSUME TypeInv, Offered, [Next]_vars
    PROVE  /\ AllBacked(mailbox, log', assigned')
           /\ BoxBacked(outbox, log', assigned')
           /\ QueueBacked(pending_delivery_requests, log')
           /\ mailbox # <<>> => /\ Backed(Head(mailbox), log', assigned')
                                /\ AllBacked(Tail(mailbox), log', assigned')
<1>1. /\ AllBacked(mailbox, log', assigned')
      /\ BoxBacked(outbox, log', assigned')
      /\ QueueBacked(pending_delivery_requests, log')
  BY HistoryGrows, BackedGrows DEF Offered, BoxBacked
<1>2. mailbox \in Seq(Message)
  BY BoxTypes
<1> QED BY <1>1, <1>2, BackedTail

(* The messages that the manager sends itself.                             *)
LEMMA MailBacked ==
    ASSUME TypeInv, Offered, Handle
    PROVE  AllBacked(mailbox', log', assigned')
<1> DEFINE m == Head(mailbox)
<1>1. /\ mailbox # <<>> /\ mailbox \in Seq(Message) /\ m \in Message
      /\ Tail(mailbox) \in Seq(Message)
  BY BoxTypes DEF Handle
<1>2. /\ Backed(m, log', assigned')
      /\ AllBacked(Tail(mailbox), log', assigned')
  BY <1>1, StillBacked DEF Next
<1>3. CASE mailbox' = Tail(mailbox)
  BY <1>2, <1>3
<1>4. ASSUME NEW n, mailbox' = Append(Tail(mailbox), n),
             Backed(n, log', assigned')
      PROVE  AllBacked(mailbox', log', assigned')
  BY <1>1, <1>2, <1>4, BackedAppend
<1>5. CASE HandleRegisterCustomer(m)
  <2>1. PICK n : /\ n.type = "SendRestaurantList"
                 /\ mailbox' = Append(Tail(mailbox), n)
    BY <1>5 DEF HandleRegisterCustomer
  <2> QED BY <1>4, <2>1 DEF Backed
<1>6. CASE OrderReady(m)
  <2>1. CASE mailbox' = Append(Tail(mailbox), [type |-> "FindRider",
                                               customer |-> m.customer])
    <3>1. Backed([type |-> "FindRider", customer |-> m.customer],
                 log', assigned')
      BY <1>2, <1>6 DEF Backed, OrderReady
    <3> QED BY <1>4, <2>1, <3>1
  <2> QED BY <1>3, <1>6, <2>1 DEF OrderReady
<1>7. CASE PaymentAuthorized(m)
  <2>1. CASE mailbox' = Append(Tail(mailbox), [m EXCEPT !.type = "OrderRequest"])
    <3>1. m.type \in Requests
      BY <1>7 DEF PaymentAuthorized, Requests
    <3>2. [m EXCEPT !.type = "OrderRequest"].type = "OrderRequest"
      BY <1>1, <3>1, RequestFields
    <3> HIDE DEF m
    <3> QED BY <1>4, <2>1, <3>2 DEF Backed
  <2> QED BY <1>3, <1>7, <2>1 DEF PaymentAuthorized
<1>8. CASE \/ HandleRegisterRider(m) \/ HandleRegisterRestaurant(m)
           \/ HandleRegisterPaymentSystem(m) \/ SendRestaurantList(m)
           \/ AuthorizePayment(m) \/ PaymentDenied(m) \/ OrderRequest(m)
  BY <1>3, <1>8 DEF HandleRegisterRider, HandleRegisterRestaurant,
     HandleRegisterPaymentSystem, SendRestaurantList, AuthorizePayment,
     PaymentDenied, OrderRequest
<1>9. CASE \/ OrderCancelled(m) \/ FindRider(m) \/ DeliveryOfferAccepted(m)
           \/ DeliveryDone(m) \/ PaymentExecuted(m)
  BY <1>3, <1>9 DEF OrderCancelled, FindRider, DeliveryOfferAccepted,
     DeliveryDone, PaymentExecuted
<1> QED BY <1>5, <1>6, <1>7, <1>8, <1>9 DEF Handle

(* The lines that the manager writes: offers of orders that are ready, and *)
(* payments of orders that were given to a rider.                          *)
LEMMA LinesBacked ==
    ASSUME MaxOrders = 1, TypeInv, Offered, Handle
    PROVE  /\ BoxBacked(outbox', log', assigned')
           /\ QueueBacked(pending_delivery_requests', log')
<1> DEFINE m == Head(mailbox)
           l == log'
           a == assigned'
<1>1. /\ mailbox # <<>> /\ m \in Message /\ outbox \in Boxes
      /\ pending_delivery_requests \in Seq(Customers)
      /\ Gateway \in Clients /\ Customers \subseteq Clients
      /\ Riders \subseteq Clients
  <2>1. mailbox # <<>> /\ m \in Message /\ outbox \in Boxes
    BY BoxTypes DEF Handle
  <2>2. pending_delivery_requests \in Seq(Customers)
    BY DEF TypeInv, TypeOK
  <2> QED BY <2>1, <2>2 DEF Clients
<1>2. /\ Backed(m, l, a) /\ BoxBacked(outbox, l, a)
      /\ QueueBacked(pending_delivery_requests, l)
  BY <1>1, StillBacked DEF Next
<1> HIDE DEF m, l, a
<1>3. CASE /\ outbox' = outbox
           /\ pending_delivery_requests' = pending_delivery_requests
  BY <1>2, <1>3 DEF l, a
<1>4. ASSUME NEW box \in Boxes, NEW riders, BoxBacked(box, l, a),
             process_pending_requests(box, riders)
      PROVE  /\ BoxBacked(outbox', log', assigned')
             /\ QueueBacked(pending_delivery_requests', log')
  BY <1>1, <1>2, <1>4, ProcessBacked DEF l, a
<1>5. ASSUME NEW c \in Customers, NEW line \in Line,
             line.type \in {"FinishDelivery", "Restaurants"}
      PROVE  /\ PostCustomer(c, line) \in Boxes
             /\ BoxBacked(PostCustomer(c, line), l, a)
  <2>1. Backed(line, l, a)
    BY <1>5 DEF Backed
  <2> QED BY <1>1, <1>2, <2>1, PostType, PostBacked DEF PostCustomer
<1>6. [type |-> "FinishDelivery"] \in Line
  BY DEF Line
<1>7. CASE \/ HandleRegisterCustomer(m) \/ HandleRegisterRider(m)
           \/ HandleRegisterRestaurant(m) \/ HandleRegisterPaymentSystem(m)
           \/ PaymentAuthorized(m)
  <2>1. \E riders : process_pending_requests(outbox, riders)
    BY <1>7 DEF HandleRegisterCustomer, HandleRegisterRider,
       HandleRegisterRestaurant, HandleRegisterPaymentSystem, PaymentAuthorized
  <2> QED BY <1>1, <1>2, <1>4, <2>1
<1>8. CASE SendRestaurantList(m)
  <2> DEFINE line == [type |-> "Restaurants", names |->
                        {x \in Nearby[m.customer] : restaurant_connections[x] # 0}]
             box == IF customers[m.customer] = None THEN outbox
                    ELSE PostCustomer(m.customer, line)
  <2>1. m.customer \in Customers
    BY <1>1, <1>8, MessageFields DEF SendRestaurantList
  <2>2. line \in Line /\ line.type \in {"FinishDelivery", "Restaurants"}
    BY <2>1, OrderFlowAssumption DEF Line
  <2>3. process_pending_requests(box, rider_connections)
    BY <1>8 DEF SendRestaurantList
  <2> HIDE DEF line
  <2>4. box \in Boxes /\ BoxBacked(box, l, a)
    BY <1>1, <1>2, <1>5, <2>1, <2>2
  <2> QED BY <1>4, <2>3, <2>4
<1>9. CASE AuthorizePayment(m)
  <2>1. m.customer \in Customers /\ m \in Line /\ m.type = "AuthorizePayment"
    <3>1. m.type = "AuthorizePayment" /\ m.type \in Requests
      BY <1>9 DEF AuthorizePayment, Requests
    <3>2. m \in [type : {"AuthorizePayment", "PaymentAuthorized",
                         "PaymentDenied", "OrderRequest"},
                 customer : Customers, price : Prices, restaurant : Restaurants]
      BY <1>1, <3>1, MessageFields
    <3>3. m \in [type : {"AuthorizePayment"}, customer : Customers,
                 price : Prices, restaurant : Restaurants]
      BY <3>1, <3>2
    <3> QED BY <3>1, <3>3 DEF Line
  <2>2. CASE payment_system # 0
    <3>1. process_pending_requests(Post(outbox, Gateway, payment_system, m),
                                   rider_connections)
      BY <1>9, <2>2 DEF AuthorizePayment
    <3> QED BY <1>1, <1>2, <1>4, <2>1, <3>1, PostType, PostBacked
  <2>3. CASE payment_system = 0
    <3>1. process_pending_requests(
              PostCustomer(m.customer, [type |-> "FinishDelivery"]),
              rider_connections)
      BY <1>9, <2>3 DEF AuthorizePayment
    <3> QED BY <1>4, <1>5, <1>6, <2>1, <3>1
  <2> QED BY <2>2, <2>3
<1>10. CASE PaymentDenied(m) \/ PaymentExecuted(m)
  <2>1. m.customer \in Customers
    BY <1>1, <1>10, MessageFields DEF PaymentDenied, PaymentExecuted
  <2>2. \/ process_pending_requests(outbox, rider_connections)
        \/ process_pending_requests(
               PostCustomer(m.customer, [type |-> "FinishDelivery"]),
               rider_connections)
    BY <1>10 DEF PaymentDenied, PaymentExecuted
  <2> QED BY <1>1, <1>2, <1>4, <1>5, <1>6, <2>1, <2>2
<1>11. CASE OrderRequest(m)
  <2>1. \/ /\ outbox' = outbox
           /\ pending_delivery_requests' = pending_delivery_requests
        \/ process_pending_requests(outbox, rider_connections)
    BY <1>11 DEF OrderRequest
  <2> QED BY <1>1, <1>2, <1>3, <1>4, <2>1
<1>12. CASE OrderReady(m)
  BY <1>3, <1>12 DEF OrderReady
<1>13. CASE OrderCancelled(m)
  <2>1. m.customer \in Customers
    BY <1>1, <1>13, MessageFields DEF OrderCancelled
  <2>2. /\ pending_delivery_requests' = pending_delivery_requests
        /\ \/ outbox' = outbox
           \/ outbox' = PostCustomer(m.customer, [type |-> "FinishDelivery"])
    BY <1>13 DEF OrderCancelled
  <2> QED BY <1>2, <1>3, <1>5, <1>6, <2>1, <2>2 DEF l, a
<1>14. CASE FindRider(m)
  <2>1. m.customer \in Customers /\ <<"ready", m.customer, 1>> \in l
    BY <1>1, <1>2, <1>14, MessageFields DEF FindRider, Backed
  <2>2. CASE customers[m.customer] = None
    BY <1>3, <1>14, <2>2 DEF FindRider
  <2>3. CASE customers[m.customer] # None
    <3>1. PICK closest \in closest_riders :
              IF closest = {}
              THEN /\ pending_delivery_requests' =
                          Append(pending_delivery_requests, m.customer)
                   /\ UNCHANGED outbox
              ELSE /\ outbox' = [cl \in Clients |->
                        IF cl \in closest /\ rider_connections[cl] = session[cl]
                        THEN Append(outbox[cl], [type |-> "DeliveryOffer",
                                                 customer |-> m.customer])
                        ELSE outbox[cl]]
                   /\ UNCHANGED pending_delivery_requests
      BY <1>14, <2>3 DEF FindRider
    <3>2. CASE closest = {}
      <4> DEFINE queue == pending_delivery_requests
      <4>1. /\ outbox' = outbox
            /\ pending_delivery_requests' = Append(queue, m.customer)
        BY <3>1, <3>2
      <4>2. /\ Len(Append(queue, m.customer)) = Len(queue) + 1
            /\ \A i \in 1 .. Len(queue) : Append(queue, m.customer)[i] = queue[i]
            /\ Append(queue, m.customer)[Len(queue) + 1] = m.customer
        BY <1>1
      <4>3. QueueBacked(Append(queue, m.customer), l)
        BY <1>1, <1>2, <2>1, <4>2 DEF QueueBacked
      <4> QED BY <1>2, <4>1, <4>3 DEF l, a
    <3>3. CASE closest # {}
      <4> DEFINE line == [type |-> "DeliveryOffer", customer |-> m.customer]
      <4>1. /\ pending_delivery_requests' = pending_delivery_requests
            /\ \A cl \in Clients :
                  outbox'[cl] \in {outbox[cl], Append(outbox[cl], line)}
        BY <3>1, <3>3
      <4>2. Backed(line, l, a)
        BY <2>1 DEF Backed
      <4> HIDE DEF line
      <4>3. BoxBacked(outbox', l, a)
        BY <1>1, <1>2, <4>1, <4>2, BackedAppend DEF BoxBacked, Boxes
      <4> QED BY <1>2, <4>1, <4>3 DEF l, a
    <3> QED BY <3>2, <3>3
  <2> QED BY <2>2, <2>3
<1>15. CASE DeliveryOfferAccepted(m)
  <2> DEFINE line == [type |-> "DeliveryOfferConfirmed",
                      customer |-> m.customer]
             order == orders_in_process[m.customer]
  <2>1. m.customer \in Customers /\ m.rider \in Riders
    BY <1>1, <1>15, MessageFields DEF DeliveryOfferAccepted
  <2>2. pending_delivery_requests' = pending_delivery_requests
    BY <1>15 DEF DeliveryOfferAccepted
  <2>3. CASE ~Assignable(order)
    BY <1>3, <1>15, <2>2, <2>3 DEF DeliveryOfferAccepted
  <2>4. CASE Assignable(order)
    <3>1. /\ outbox' = Post(outbox, m.rider, rider_connections[m.rider], line)
          /\ <<m.rider, m.customer, order.order_price>> \in assigned'
      BY <1>15, <2>4 DEF DeliveryOfferAccepted
    <3>2. line \in Line
      BY <2>1 DEF Line
    <3>3. order.order_price = 1
      BY <2>1, <2>4, OnePrice DEF TypeInv, Assignable
    <3>4. Backed(line, l, a)
      BY <2>1, <3>1, <3>3 DEF Backed, a
    <3> QED BY <1>1, <1>2, <2>1, <2>2, <3>1, <3>2, <3>4, PostBacked DEF l, a
  <2> QED BY <2>3, <2>4
<1>16. CASE DeliveryDone(m)
  <2> DEFINE order == orders_in_process[m.customer]
             line == [type |-> "ExecutePayment", customer |-> m.customer,
                      price |-> order.order_price]
  <2>1. m.customer \in Customers
    BY <1>1, <1>16, MessageFields DEF DeliveryDone
  <2>2. pending_delivery_requests' = pending_delivery_requests
    BY <1>16 DEF DeliveryDone
  <2>3. CASE order = None
    BY <1>3, <1>16, <2>2, <2>3 DEF DeliveryDone
  <2>4. CASE order # None
    <3>1. outbox' = Post(outbox, Gateway, payment_system, line)
      BY <1>16, <2>4 DEF DeliveryDone
    <3>2. line \in Line
      BY <2>1, <2>4 DEF Line, TypeInv
    <3>3. Backed(line, l, a)
      BY <1>2, <1>16 DEF Backed, DeliveryDone
    <3> HIDE DEF line
    <3> QED BY <1>1, <1>2, <2>2, <3>1, <3>2, <3>3, PostBacked DEF l, a
  <2> QED BY <2>3, <2>4
<1> QED BY <1>7, <1>8, <1>9, <1>10, <1>11, <1>12, <1>13, <1>14, <1>15, <1>16
    DEF Handle, m

(* A line that is taken.                                                   *)
LEMMA TakenBacked ==
    ASSUME TypeInv, Offered, [Next]_vars, NEW cl \in Clients,
           outbox[cl] # <<>>
    PROVE  /\ Head(outbox[cl]) \in Line
           /\ Backed(Head(outbox[cl]), log', assigned')
           /\ BoxBacked([outbox EXCEPT ![cl] = Tail(@)], log', assigned')
<1>1. /\ outbox[cl] \in Seq(Line) /\ Head(outbox[cl]) \in Line
      /\ outbox \in Boxes
  BY BoxTypes, TakeLine DEF Boxes
<1>2. BoxBacked(outbox, log', assigned')
  BY StillBacked
<1>3. /\ Backed(Head(outbox[cl]), log', assigned')
      /\ AllBacked(Tail(outbox[cl]), log', assigned')
  BY <1>1, <1>2, BackedTail DEF BoxBacked
<1> QED BY <1>1, <1>2, <1>3 DEF BoxBacked, Boxes

(* A message that a client sends.                                          *)
LEMMA SentBacked ==
    ASSUME TypeInv, Offered, [Next]_vars, NEW n,
           mailbox' = Append(mailbox, n), Backed(n, log', assigned')
    PROVE  AllBacked(mailbox', log', assigned')
BY BoxTypes, StillBacked, BackedAppend

(* The steps of the clients, but for the payment system.                   *)
LEMMA ClientBacked ==
    ASSUME MaxOrders = 1, TypeInv, Offered, [Next]_vars,
           \/ \E c \in Customers :
                 ChooseRestaurant(c) \/ FinishDelivery(c) \/ GetRestaurants(c)
           \/ \E r \in Riders : DeliveryOffer(r) \/ GoToCustomerLocation(r)
           \/ \E x \in Restaurants : ContinueOrder(x)
    PROVE  /\ AllBacked(mailbox', log', assigned')
           /\ BoxBacked(outbox', log', assigned')
<1>1. /\ AllBacked(mailbox, log', assigned')
      /\ BoxBacked(outbox, log', assigned')
  BY StillBacked
<1>2. Customers \subseteq Clients /\ Riders \subseteq Clients
  BY DEF Clients
<1>3. ASSUME NEW c \in Customers, ChooseRestaurant(c)
      PROVE  /\ AllBacked(mailbox', log', assigned')
             /\ BoxBacked(outbox', log', assigned')
  <2>1. PICK n : n.type = "AuthorizePayment" /\ mailbox' = Append(mailbox, n)
    BY <1>3 DEF ChooseRestaurant
  <2>2. Backed(n, log', assigned')
    BY <2>1 DEF Backed
  <2>3. /\ outbox[c] # <<>>
        /\ outbox' = [outbox EXCEPT ![c] = Tail(@)]
    BY <1>3 DEF ChooseRestaurant, Taken
  <2> QED BY <1>2, <2>1, <2>2, <2>3, SentBacked, TakenBacked
<1>4. ASSUME NEW c \in Customers, FinishDelivery(c)
      PROVE  /\ AllBacked(mailbox', log', assigned')
             /\ BoxBacked(outbox', log', assigned')
  BY <1>1, <1>2, <1>4, TakenBacked DEF FinishDelivery, Taken
<1>5. ASSUME NEW c \in Customers, GetRestaurants(c)
      PROVE  /\ AllBacked(mailbox', log', assigned')
             /\ BoxBacked(outbox', log', assigned')
  <2>1. PICK n : n.type = "RegisterCustomer" /\ mailbox' = Append(mailbox, n)
    BY <1>5 DEF GetRestaurants
  <2>2. Backed(n, log', assigned')
    BY <2>1 DEF Backed
  <2> QED BY <1>1, <1>5, <2>1, <2>2, SentBacked DEF GetRestaurants
<1>6. ASSUME NEW r \in Riders, DeliveryOffer(r)
      PROVE  /\ AllBacked(mailbox', log', assigned')
             /\ BoxBacked(outbox', log', assigned')
  <2> DEFINE n == [type |-> "DeliveryOfferAccepted",
                   customer |-> Head(outbox[r]).customer, rider |-> r]
  <2>1. /\ outbox[r] # <<>> /\ Head(outbox[r]).type = "DeliveryOffer"
        /\ outbox' = [outbox EXCEPT ![r] = Tail(@)]
        /\ mailbox' = mailbox \/ mailbox' = Append(mailbox, n)
    BY <1>6 DEF DeliveryOffer, Taken
  <2>2. /\ Backed(Head(outbox[r]), log', assigned')
        /\ BoxBacked(outbox', log', assigned')
    BY <1>2, <2>1, TakenBacked
  <2>3. Backed(n, log', assigned')
    BY <2>1, <2>2 DEF Backed
  <2> QED BY <1>1, <2>1, <2>2, <2>3, SentBacked
<1>7. ASSUME NEW r \in Riders, GoToCustomerLocation(r)
      PROVE  /\ AllBacked(mailbox', log', assigned')
             /\ BoxBacked(outbox', log', assigned')
  <2> DEFINE n == [type |-> "DeliveryDone", customer |-> customer_id[r],
                   rider |-> r]
  <2>1. /\ outbox[r] # <<>>
        /\ outbox' = [outbox EXCEPT ![r] = Tail(@)]
        /\ mailbox' = mailbox \/ (busy[r] /\ mailbox' = Append(mailbox, n))
    BY <1>7 DEF GoToCustomerLocation, Taken
  <2>2. busy[r] => Backed(n, log', assigned')
    BY HistoryGrows DEF Offered, Backed, Given
  <2> QED BY <1>1, <1>2, <2>1, <2>2, SentBacked, TakenBacked
<1>8. ASSUME NEW x \in Restaurants, ContinueOrder(x)
      PROVE  /\ AllBacked(mailbox', log', assigned')
             /\ BoxBacked(outbox', log', assigned')
  <2>1. PICK o \in cooking[x], answer \in {"OrderReady", "OrderCancelled"} :
          /\ mailbox' = Append(mailbox, [type |-> answer,
                                         customer |-> o.customer])
          /\ Note(IF answer = "OrderReady" THEN "ready" ELSE "cancelled",
                  o.customer, o.price)
          /\ UNCHANGED <<managerVars, outbox, clientVars, assigned>>
    BY <1>8 DEF ContinueOrder
  <2>2. o \in Orders
    BY DEF TypeInv, TypeOK
  <2>3. o.price = 1
    BY <2>2, OnePrice DEF Mine
  <2>4. Backed([type |-> answer, customer |-> o.customer], log', assigned')
    BY <2>1, <2>3 DEF Backed, Note
  <2> QED BY <1>1, <2>1, <2>4, SentBacked
<1> QED BY <1>3, <1>4, <1>5, <1>6, <1>7, <1>8

(* The payment system.                                                     *)
LEMMA PaymentBacked ==
    ASSUME TypeInv, Offered, PaymentSystem
    PROVE  /\ AllBacked(mailbox', log', assigned')
           /\ BoxBacked(outbox', log', assigned')
<1> DEFINE line == Head(outbox[Gateway])
<1>1. /\ Gateway \in Clients /\ outbox[Gateway] # <<>>
      /\ line.type \in {"AuthorizePayment", "ExecutePayment"}
      /\ outbox' = [outbox EXCEPT ![Gateway] = Tail(@)]
      /\ \E answer \in {"PaymentAuthorized", "PaymentDenied",
                        "PaymentExecuted"} :
             mailbox' = Append(mailbox, [line EXCEPT !.type = answer])
  BY DEF PaymentSystem, ExecuteAutorization, ExecutePayment, Taken, Clients
<1>2. line \in Line /\ BoxBacked(outbox', log', assigned')
  BY <1>1, TakenBacked DEF Next
<1>3. PICK answer \in {"PaymentAuthorized", "PaymentDenied",
                       "PaymentExecuted"} :
          mailbox' = Append(mailbox, [line EXCEPT !.type = answer])
  BY <1>1
<1>4. \/ line \in [type : {"AuthorizePayment"}, customer : Customers,
                   price : Prices, restaurant : Restaurants]
      \/ line \in [type : {"ExecutePayment"}, customer : Customers,
                   price : Prices]
  BY <1>1, <1>2, LineFields
<1> HIDE DEF line
<1>5. [line EXCEPT !.type = answer].type = answer
  BY <1>4
<1>6. Backed([line EXCEPT !.type = answer], log', assigned')
  BY <1>5 DEF Backed
<1> QED BY <1>2, <1>3, <1>6, SentBacked DEF Next

(* The others: a process that starts afresh, a rider that is confirmed.    *)
LEMMA RestartBacked ==
    ASSUME TypeInv, Offered, [Next]_vars, NEW cl \in Clients,
           NEW registration, Restarted(cl, registration),
           registration.type \in {"RegisterCustomer", "RegisterRider",
                                  "RegisterRestaurant",
                                  "RegisterPaymentSystem"}
    PROVE  /\ AllBacked(mailbox', log', assigned')
           /\ BoxBacked(outbox', log', assigned')
<1>1. Backed(registration, log', assigned')
  BY DEF Backed
<1>2. AllBacked(<<>>, log', assigned')
  BY DEF AllBacked
<1>3. BoxBacked(outbox', log', assigned')
  BY <1>2, BoxTypes, StillBacked DEF Restarted, BoxBacked, Boxes
<1> QED BY <1>1, <1>3, SentBacked DEF Restarted

(* A rider that handles its confirmation works for a customer whose order  *)
(* was given away.                                                         *)
LEMMA ConfirmedBacked ==
    ASSUME TypeInv, Offered, NEW r \in Riders, DeliveryOfferConfirmed(r)
    PROVE  /\ BoxBacked(outbox', log', assigned')
           /\ \E c : Given(c, 1) /\ customer_id' = [customer_id EXCEPT ![r] = c]
<1> DEFINE line == [type |-> "GoToCustomerLocation"]
           rest == Tail(outbox[r])
<1>1. /\ r \in Clients /\ outbox[r] # <<>>
      /\ Head(outbox[r]).type = "DeliveryOfferConfirmed"
      /\ log' = log /\ assigned' = assigned /\ [Next]_vars
  BY DEF DeliveryOfferConfirmed, Taken, Clients, Next, Rider, history
<1>2. /\ outbox[r] \in Seq(Line) /\ rest \in Seq(Line)
      /\ outbox \in Boxes /\ line \in Line
  BY <1>1, BoxTypes, TakeLine DEF Boxes, Line
<1>3. /\ BoxBacked(outbox, log', assigned')
      /\ Backed(Head(outbox[r]), log', assigned')
      /\ AllBacked(rest, log', assigned')
  BY <1>1, <1>2, StillBacked, BackedTail DEF BoxBacked
<1>4. Backed(line, log', assigned')
  BY DEF Backed
<1>5. PICK i \in 1 .. Len(rest) + 1 :
          outbox' = [outbox EXCEPT ![r] = InsertAt(rest, i, line)]
  BY DEF DeliveryOfferConfirmed
<1> HIDE DEF rest, line
<1>6. AllBacked(InsertAt(rest, i, line), log', assigned')
  BY <1>2, <1>3, <1>4, BackedInsert
<1>7. BoxBacked(outbox', log', assigned')
  BY <1>1, <1>2, <1>3, <1>5, <1>6 DEF BoxBacked, Boxes
<1>8. Given(Head(outbox[r]).customer, 1)
  BY <1>1, <1>3 DEF Backed, Given
<1> QED BY <1>7, <1>8 DEF DeliveryOfferConfirmed

(* What is known of the log and of the riders at work.                     *)
Worked ==
    /\ \A r \in Riders : busy[r] => Given(customer_id[r], 1)
    /\ \A c \in Customers : /\ Given(c, 1) => Logged("ready", c)
                            /\ Logged("charged", c) => Given(c, 1)

(* What the riders work for stays so in a step that gives no rider work.   *)
LEMMA WorkedKept ==
    ASSUME TypeInv, Offered, [Next]_vars,
           \A r \in Riders : busy'[r] =>
               busy[r] /\ customer_id'[r] = customer_id[r],
           assigned' = assigned,
           \A c \in Customers : Logged("charged", c)' => Logged("charged", c)
    PROVE  Worked'
BY HistoryGrows DEF Offered, Worked, Given, Logged

(* What the riders work for stays so when the manager handles a message.   *)
LEMMA WorkedHandle ==
    ASSUME MaxOrders = 1, TypeInv, Offered, Handle
    PROVE  Worked'
<1> DEFINE m == Head(mailbox)
<1>1. /\ mailbox # <<>> /\ m \in Message /\ [Next]_vars
      /\ busy' = busy /\ customer_id' = customer_id
      /\ \A c \in Customers : Logged("charged", c)' => Logged("charged", c)
  BY BoxTypes, HandleLog DEF Handle, Next, clientVars, Logged
<1>2. CASE assigned' = assigned
  BY <1>1, <1>2, WorkedKept
<1>3. ASSUME NEW a \in Customers, NEW r \in Riders, NEW q \in Prices,
             a = m.customer, assigned' = assigned \cup {<<r, a, q>>},
             m.type = "DeliveryOfferAccepted"
      PROVE  Worked'
  <2>1. Logged("ready", a)'
    BY <1>1, <1>3, StillBacked DEF Backed, Logged
  <2>2. \A c \in Customers : /\ Given(c, 1) => Given(c, 1)'
                             /\ Given(c, 1)' => Given(c, 1) \/ c = a
                             /\ Logged("ready", c) => Logged("ready", c)'
    BY <1>1, <1>3, HistoryGrows DEF Given, Logged
  <2>3. \A k \in Riders : busy'[k] => Given(customer_id[k], 1)'
    BY <1>1, <1>3 DEF Offered, Given
  <2> QED BY <1>1, <2>1, <2>2, <2>3 DEF Offered, Worked, Given
<1>4. CASE m.type = "DeliveryOfferAccepted"
  BY <1>2, <1>3, <1>4, OfferAccepted
<1> QED BY <1>2, <1>4, HandleQuiet

(* What the riders work for stays so when the payment system answers.      *)
LEMMA WorkedPayment ==
    ASSUME MaxOrders = 1, TypeInv, Offered, PaymentSystem
    PROVE  Worked'
<1> DEFINE line == Head(outbox[Gateway])
<1>1. /\ [Next]_vars /\ assigned' = assigned
      /\ busy' = busy /\ customer_id' = customer_id
  BY DEF Next, PaymentSystem, ExecuteAutorization, ExecutePayment, clientVars
<1>2. CASE ExecuteAutorization
  <2>1. \A c \in Customers : Logged("charged", c)' => Logged("charged", c)
    BY <1>2 DEF ExecuteAutorization, Note, Logged
  <2> QED BY <1>1, <2>1, WorkedKept
<1>3. CASE ExecutePayment
  <2>1. /\ outbox[Gateway] # <<>> /\ line.type = "ExecutePayment"
        /\ Gateway \in Clients
        /\ log' = log \cup {<<"charged", line.customer, line.price>>}
    BY <1>3 DEF ExecutePayment, Taken, Clients, Note
  <2>2. Given(line.customer, 1)
    BY <1>1, <2>1, TakenBacked DEF Backed, Given
  <2>3. \A c \in Customers :
            /\ Logged("charged", c)' => Logged("charged", c) \/ c = line.customer
            /\ Logged("ready", c) => Logged("ready", c)'
            /\ Given(c, 1)' <=> Given(c, 1)
    BY <1>1, <2>1 DEF Logged, Given
  <2> QED BY <1>1, <2>2, <2>3 DEF Offered, Worked, Given
<1> QED BY <1>2, <1>3 DEF PaymentSystem

(* What the riders work for stays so in the steps of the other clients.    *)
LEMMA WorkedClients ==
    ASSUME TypeInv, Offered,
           \/ \E c \in Customers : StartCustomer(c) \/ Customer(c) \/ GetRestaurants(c)
           \/ \E r \in Riders : StartRider(r) \/ Rider(r)
           \/ \E x \in Restaurants : StartRestaurant(x) \/ ContinueOrder(x)
           \/ StartPaymentSystem
    PROVE  Worked'
<1>1. /\ [Next]_vars /\ assigned' = assigned
      /\ \A c \in Customers : Logged("charged", c)' => Logged("charged", c)
  BY DEF Next, StartCustomer, StartRider, StartRestaurant, StartPaymentSystem,
         Restarted, Customer, ChooseRestaurant, FinishDelivery, GetRestaurants,
         Rider, DeliveryOffer, DeliveryOfferConfirmed, GoToCustomerLocation,
         ContinueOrder, Note, Logged, history
<1>2. busy \in [Riders -> BOOLEAN] /\ DOMAIN customer_id = Riders
  BY DEF TypeInv, TypeOK
<1>3. ASSUME NEW r \in Riders, DeliveryOfferConfirmed(r) PROVE Worked'
  <2>1. PICK c : Given(c, 1) /\ customer_id' = [customer_id EXCEPT ![r] = c]
    BY <1>3, ConfirmedBacked
  <2>2. busy' = [busy EXCEPT ![r] = TRUE] /\ log' = log
    BY <1>3 DEF DeliveryOfferConfirmed, history
  <2>3. \A k \in Riders : busy'[k] => Given(customer_id'[k], 1)
    <3> SUFFICES ASSUME NEW k \in Riders, busy'[k]
                 PROVE  Given(customer_id'[k], 1)
      OBVIOUS
    <3>1. CASE k = r
      BY <1>2, <2>1, <3>1
    <3>2. CASE k # r
      <4>1. customer_id'[k] = customer_id[k]
        BY <1>2, <2>1, <3>2
      <4>2. busy'[k] = busy[k]
        BY <1>2, <2>2, <3>2
      <4> QED BY <4>1, <4>2 DEF Offered
    <3> QED BY <3>1, <3>2
  <2>4. \A d : /\ Given(d, 1)' <=> Given(d, 1)
               /\ \A e : Logged(e, d)' <=> Logged(e, d)
    BY <1>1, <2>2 DEF Given, Logged
  <2> QED BY <1>1, <2>3, <2>4 DEF Offered, Worked, Given
<1>4. CASE ~\E r \in Riders : DeliveryOfferConfirmed(r)
  <2>1. \A r \in Riders : busy'[r] => busy[r] /\ customer_id'[r] = customer_id[r]
    <3>1. CASE busy' = busy /\ customer_id' = customer_id
      BY <3>1
    <3>2. ASSUME NEW k \in Riders, busy' = [busy EXCEPT ![k] = FALSE],
                 customer_id' = [customer_id EXCEPT ![k] = None]
          PROVE  <2>1!:
      BY <1>2, <3>2, Zenon
    <3>3. ASSUME NEW k \in Riders, busy' = [busy EXCEPT ![k] = FALSE],
                 customer_id' = customer_id
          PROVE  <2>1!:
      BY <1>2, <3>3, Zenon
    <3>4. ASSUME NEW r \in Riders, StartRider(r) \/ DeliveryOffer(r)
                                   \/ GoToCustomerLocation(r)
          PROVE  <2>1!:
      BY <3>1, <3>2, <3>3, <3>4
         DEF StartRider, DeliveryOffer, GoToCustomerLocation, clientVars
    <3>5. CASE \/ \E c \in Customers :
                     StartCustomer(c) \/ Customer(c) \/ GetRestaurants(c)
               \/ \E x \in Restaurants : StartRestaurant(x) \/ ContinueOrder(x)
               \/ StartPaymentSystem
      BY <3>1, <3>5 DEF StartCustomer, StartRestaurant, StartPaymentSystem,
         Customer, ChooseRestaurant, FinishDelivery, GetRestaurants,
         ContinueOrder, clientVars
    <3> QED BY <1>4, <3>4, <3>5 DEF Rider
  <2> QED BY <1>1, <2>1, WorkedKept
<1> QED BY <1>3, <1>4

(* Every step keeps the offers and the deliveries backed.                  *)
LEMMA OfferedStep ==
    ASSUME MaxOrders = 1, TypeInv, Offered, [Next]_vars
    PROVE  Offered'
<1>1. ASSUME AllBacked(mailbox', log', assigned'),
             BoxBacked(outbox', log', assigned'),
             QueueBacked(pending_delivery_requests', log'),
             Worked'
      PROVE  Offered'
  BY <1>1 DEF Offered, Worked, BoxBacked
<1>2. /\ AllBacked(mailbox, log', assigned')
      /\ BoxBacked(outbox, log', assigned')
      /\ QueueBacked(pending_delivery_requests, log')
  BY StillBacked
<1>3. CASE Handle
  BY <1>1, <1>3, MailBacked, LinesBacked, WorkedHandle
<1>4. CASE PaymentSystem
  <2>1. pending_delivery_requests' = pending_delivery_requests
    BY <1>4 DEF PaymentSystem, ExecuteAutorization, ExecutePayment, managerVars
  <2> QED BY <1>1, <1>2, <1>4, <2>1, PaymentBacked, WorkedPayment
<1>5. CASE \/ \E c \in Customers : StartCustomer(c) \/ Customer(c) \/ GetRestaurants(c)
           \/ \E r \in Riders : StartRider(r) \/ Rider(r)
           \/ \E x \in Restaurants : StartRestaurant(x) \/ ContinueOrder(x)
           \/ StartPaymentSystem
  <2>1. pending_delivery_requests' = pending_delivery_requests
    BY <1>5 DEF StartCustomer, StartRider, StartRestaurant, StartPaymentSystem,
         Restarted, Customer, ChooseRestaurant, FinishDelivery, GetRestaurants,
         Rider, DeliveryOffer, DeliveryOfferConfirmed, GoToCustomerLocation,
         ContinueOrder, managerVars
  <2>2. ASSUME NEW cl \in Clients, NEW registration,
               Restarted(cl, registration),
               registration.type \in {"RegisterCustomer", "RegisterRider",
                                      "RegisterRestaurant",
                                      "RegisterPaymentSystem"}
        PROVE  /\ AllBacked(mailbox', log', assigned')
               /\ BoxBacked(outbox', log', assigned')
    BY <2>2, RestartBacked
  <2>3. CASE \/ \E c \in Customers : StartCustomer(c)
             \/ \E r \in Riders : StartRider(r)
             \/ \E x \in Restaurants : StartRestaurant(x)
             \/ StartPaymentSystem
    <3>1. /\ AllBacked(mailbox', log', assigned')
          /\ BoxBacked(outbox', log', assigned')
      BY <2>2, <2>3 DEF StartCustomer, StartRider, StartRestaurant,
         StartPaymentSystem, Clients
    <3> QED BY <1>1, <1>2, <1>5, <2>1, <3>1, WorkedClients
  <2>4. CASE \/ \E c \in Customers :
                   ChooseRestaurant(c) \/ FinishDelivery(c) \/ GetRestaurants(c)
             \/ \E r \in Riders : DeliveryOffer(r) \/ GoToCustomerLocation(r)
             \/ \E x \in Restaurants : ContinueOrder(x)
    <3>1. /\ AllBacked(mailbox', log', assigned')
          /\ BoxBacked(outbox', log', assigned')
      BY <2>4, ClientBacked
    <3> QED BY <1>1, <1>2, <1>5, <2>1, <3>1, WorkedClients
  <2>5. CASE \E r \in Riders : DeliveryOfferConfirmed(r)
    <3>1. mailbox' = mailbox
      BY <2>5 DEF DeliveryOfferConfirmed
    <3>2. BoxBacked(outbox', log', assigned')
      BY <2>5, ConfirmedBacked
    <3> QED BY <1>1, <1>2, <1>5, <2>1, <3>1, <3>2, WorkedClients
  <2> QED BY <1>5, <2>3, <2>4, <2>5 DEF Customer, Rider
<1>6. CASE UNCHANGED vars
  <2>1. /\ mailbox' = mailbox /\ outbox' = outbox /\ log' = log
        /\ pending_delivery_requests' = pending_delivery_requests
        /\ assigned' = assigned /\ busy' = busy /\ customer_id' = customer_id
    BY <1>6 DEF vars, clientVars, history
  <2>2. \A c \in Customers : Logged("charged", c)' => Logged("charged", c)
    BY <2>1 DEF Logged
  <2>3. Worked'
    BY <2>1, <2>2, WorkedKept
  <2> QED BY <1>1, <1>2, <2>1, <2>3
<1> QED BY <1>3, <1>4, <1>5, <1>6 DEF Next

----------------------------------------------------------------------------
(* The mailbox, message by message: a handler takes the first, and adds    *)
(* none but of three types; a client adds one at the end.                  *)
LEMMA ItemsTaken ==
    ASSUME TypeInv, Handle
    PROVE  /\ Len(mailbox) \in Nat \ {0} /\ Head(mailbox) = mailbox[1]
           /\ \A i \in 1 .. Len(mailbox') :
                 \/ i + 1 \in 1 .. Len(mailbox) /\ mailbox'[i] = mailbox[i + 1]
                 \/ mailbox'[i].type \in {"SendRestaurantList", "FindRider",
                                          "OrderRequest"}
           /\ \A i \in 2 .. Len(mailbox) :
                 i - 1 \in 1 .. Len(mailbox') /\ mailbox'[i - 1] = mailbox[i]
<1> DEFINE m == Head(mailbox)
           rest == Tail(mailbox)
<1>1. /\ mailbox # <<>> /\ mailbox \in Seq(Message) /\ m \in Message
  BY BoxTypes DEF Handle
<1>2. /\ Len(mailbox) \in Nat \ {0} /\ m = mailbox[1] /\ rest \in Seq(Message)
      /\ Len(rest) = Len(mailbox) - 1
      /\ \A i \in 1 .. Len(rest) : rest[i] = mailbox[i + 1]
  BY <1>1
<1>3. \/ mailbox' = rest
      \/ \E n : /\ n.type \in {"SendRestaurantList", "FindRider", "OrderRequest"}
                /\ mailbox' = Append(rest, n)
  <2>1. CASE /\ m.type = "PaymentAuthorized"
             /\ mailbox' = Append(rest, [m EXCEPT !.type = "OrderRequest"])
    <3>1. m.type \in Requests
      BY <2>1 DEF Requests
    <3>2. [m EXCEPT !.type = "OrderRequest"].type = "OrderRequest"
      BY <1>1, <3>1, RequestFields
    <3> DEFINE n == [m EXCEPT !.type = "OrderRequest"]
    <3>3. /\ n.type \in {"SendRestaurantList", "FindRider", "OrderRequest"}
          /\ mailbox' = Append(rest, n)
      BY <2>1, <3>2
    <3> HIDE DEF m, rest, n
    <3> QED BY <3>3
  <2> QED BY <2>1, HandleMail
<1> HIDE DEF rest
<1>4. CASE mailbox' = rest
  BY <1>2, <1>4
<1>5. ASSUME NEW n,
             n.type \in {"SendRestaurantList", "FindRider", "OrderRequest"},
             mailbox' = Append(rest, n)
      PROVE  /\ \A i \in 1 .. Len(mailbox') :
                   \/ /\ i + 1 \in 1 .. Len(mailbox)
                      /\ mailbox'[i] = mailbox[i + 1]
                   \/ mailbox'[i].type \in {"SendRestaurantList", "FindRider",
                                            "OrderRequest"}
             /\ \A i \in 2 .. Len(mailbox) :
                   /\ i - 1 \in 1 .. Len(mailbox')
                   /\ mailbox'[i - 1] = mailbox[i]
  <2>1. /\ Len(mailbox') = Len(rest) + 1 /\ mailbox'[Len(rest) + 1] = n
        /\ \A i \in 1 .. Len(rest) : mailbox'[i] = rest[i]
    BY <1>2, <1>5
  <2>2. \A i \in 1 .. Len(mailbox') : i \in 1 .. Len(rest) \/ i = Len(rest) + 1
    BY <1>2, <2>1
  <2>3. \A i \in 1 .. Len(rest) : i + 1 \in 1 .. Len(mailbox)
    BY <1>2
  <2>4. \A i \in 2 .. Len(mailbox) :
            i - 1 \in 1 .. Len(rest) /\ i - 1 \in 1 .. Len(mailbox')
    BY <1>2, <2>1
  <2> QED BY <1>2, <1>5, <2>1, <2>2, <2>3, <2>4
<1> QED BY <1>2, <1>3, <1>4, <1>5

(* The elements of the mailbox when a message n is sent.                   *)
LEMMA ItemsSent ==
    ASSUME TypeInv, NEW n, mailbox' = Append(mailbox, n)
    PROVE  /\ Len(mailbox) \in Nat /\ Len(mailbox') = Len(mailbox) + 1
           /\ mailbox'[Len(mailbox) + 1] = n
           /\ \A i \in 1 .. Len(mailbox) :
                 i \in 1 .. Len(mailbox') /\ mailbox'[i] = mailbox[i]
           /\ \A i \in 1 .. Len(mailbox') :
                 i \in 1 .. Len(mailbox) \/ i = Len(mailbox) + 1
<1>1. mailbox \in Seq(Message)
  BY BoxTypes
<1>2. /\ Len(mailbox) \in Nat /\ Len(mailbox') = Len(mailbox) + 1
      /\ mailbox'[Len(mailbox) + 1] = n
      /\ \A i \in 1 .. Len(mailbox) : mailbox'[i] = mailbox[i]
  BY <1>1
<1> QED BY <1>2

----------------------------------------------------------------------------
(* Customers that have ordered are known.                                  *)

(* In box, a customer has got no more lines than it has, unless it is      *)
(* connected.                                                              *)
Reaches(box) ==
    \A c \in Customers : \/ box[c] = outbox[c]
                         \/ customer_connections[c] # 0 /\ session[c] # 0

(* Draining the queue of deliveries for the riders writes nothing to a     *)
(* customer.                                                               *)
LEMMA ProcessForRiders ==
    ASSUME NEW box \in Boxes, NEW riders, process_pending_requests(box, riders),
           NEW c \in Customers
    PROVE  outbox'[c] = box[c]
<1> DEFINE known == {r \in Riders : riders[r] # 0}
           offers == [i \in 1 .. Len(pending_delivery_requests) |->
                        [type |-> "DeliveryOffer",
                         customer |-> pending_delivery_requests[i]]]
<1>1. CASE known = {}
  BY <1>1 DEF process_pending_requests
<1>2. CASE known # {}
  <2>1. PICK r \in known :
           outbox' = IF riders[r] = session[r]
                     THEN [box EXCEPT ![r] = @ \o offers] ELSE box
    BY <1>2 DEF process_pending_requests
  <2>2. r # c /\ c \in Clients
    BY OrderFlowAssumption DEF Clients
  <2> HIDE DEF offers
  <2> QED BY <2>1, <2>2 DEF Boxes
<1> QED BY <1>1, <1>2

(* The manager writes to a customer only over its connection.              *)
LEMMA CustomerLines ==
    ASSUME TypeInv, Handle
    PROVE  Reaches(outbox')
<1> DEFINE m == Head(mailbox)
<1>1. /\ mailbox # <<>> /\ m \in Message /\ outbox \in Boxes
  BY BoxTypes DEF Handle
<1>2. /\ Gateway \in Clients /\ Customers \subseteq Clients
      /\ Riders \subseteq Clients
      /\ \A c \in Customers : c # Gateway /\ c \notin Riders
  BY OrderFlowAssumption DEF Clients
<1> HIDE DEF m
<1>3. CASE outbox' = outbox
  BY <1>3 DEF Reaches
<1>4. ASSUME NEW box \in Boxes, NEW riders, Reaches(box),
             process_pending_requests(box, riders)
      PROVE  Reaches(outbox')
  BY <1>4, ProcessForRiders DEF Reaches
<1>5. ASSUME NEW c \in Customers, NEW line \in Line
      PROVE  /\ PostCustomer(c, line) \in Boxes
             /\ Reaches(PostCustomer(c, line))
  <2>1. PostCustomer(c, line) \in Boxes
    BY <1>1, <1>2, PostType DEF PostCustomer
  <2>2. Reaches(PostCustomer(c, line))
    BY <1>1, <1>2 DEF PostCustomer, Post, Reaches, Boxes
  <2> QED BY <2>1, <2>2
<1>6. ASSUME NEW cl \in Clients \ Customers, NEW s, NEW line
      PROVE  Reaches(Post(outbox, cl, s, line))
  BY <1>1, <1>2, <1>6 DEF Post, Reaches, Boxes
<1>7. [type |-> "FinishDelivery"] \in Line /\ Reaches(outbox)
  BY DEF Line, Reaches
<1>8. CASE \/ HandleRegisterCustomer(m) \/ HandleRegisterRider(m)
           \/ HandleRegisterRestaurant(m) \/ HandleRegisterPaymentSystem(m)
           \/ PaymentAuthorized(m)
  <2>1. \E riders : process_pending_requests(outbox, riders)
    BY <1>8 DEF HandleRegisterCustomer, HandleRegisterRider,
       HandleRegisterRestaurant, HandleRegisterPaymentSystem, PaymentAuthorized
  <2> QED BY <1>1, <1>4, <1>7, <2>1
<1>9. CASE SendRestaurantList(m)
  <2> DEFINE line == [type |-> "Restaurants", names |->
                        {x \in Nearby[m.customer] : restaurant_connections[x] # 0}]
             box == IF customers[m.customer] = None THEN outbox
                    ELSE PostCustomer(m.customer, line)
  <2>1. m.customer \in Customers
    BY <1>1, <1>9, MessageFields DEF SendRestaurantList
  <2>2. line \in Line
    BY <2>1, OrderFlowAssumption DEF Line
  <2>3. process_pending_requests(box, rider_connections)
    BY <1>9 DEF SendRestaurantList
  <2> HIDE DEF line
  <2>4. box \in Boxes /\ Reaches(box)
    BY <1>1, <1>5, <1>7, <2>1, <2>2
  <2> QED BY <1>4, <2>3, <2>4
<1>10. CASE AuthorizePayment(m)
  <2>1. m.customer \in Customers /\ m \in Line
    <3>1. m.type = "AuthorizePayment" /\ m.type \in Requests
      BY <1>10 DEF AuthorizePayment, Requests
    <3>2. m \in [type : {"AuthorizePayment", "PaymentAuthorized",
                         "PaymentDenied", "OrderRequest"},
                 customer : Customers, price : Prices, restaurant : Restaurants]
      BY <1>1, <3>1, MessageFields
    <3>3. m \in [type : {"AuthorizePayment"}, customer : Customers,
                 price : Prices, restaurant : Restaurants]
      BY <3>1, <3>2
    <3> QED BY <3>3 DEF Line
  <2>2. CASE payment_system # 0
    <3>1. process_pending_requests(Post(outbox, Gateway, payment_system, m),
                                   rider_connections)
      BY <1>10, <2>2 DEF AuthorizePayment
    <3> QED BY <1>1, <1>2, <1>4, <1>6, <2>1, <3>1, PostType
  <2>3. CASE payment_system = 0
    <3>1. process_pending_requests(
              PostCustomer(m.customer, [type |-> "FinishDelivery"]),
              rider_connections)
      BY <1>10, <2>3 DEF AuthorizePayment
    <3> QED BY <1>4, <1>5, <1>7, <2>1, <3>1
  <2> QED BY <2>2, <2>3
<1>11. CASE PaymentDenied(m) \/ PaymentExecuted(m) \/ OrderCancelled(m)
  <2>1. m.customer \in Customers
    BY <1>1, <1>11, MessageFields
       DEF PaymentDenied, PaymentExecuted, OrderCancelled
  <2>2. \/ process_pending_requests(outbox, rider_connections)
        \/ process_pending_requests(
               PostCustomer(m.customer, [type |-> "FinishDelivery"]),
               rider_connections)
        \/ outbox' = outbox
        \/ outbox' = PostCustomer(m.customer, [type |-> "FinishDelivery"])
    BY <1>11 DEF PaymentDenied, PaymentExecuted, OrderCancelled
  <2> QED BY <1>1, <1>4, <1>5, <1>7, <2>1, <2>2
<1>12. CASE OrderRequest(m) \/ OrderReady(m)
  <2>1. outbox' = outbox \/ process_pending_requests(outbox, rider_connections)
    BY <1>12 DEF OrderRequest, OrderReady
  <2> QED BY <1>1, <1>3, <1>4, <1>7, <2>1
<1>13. CASE FindRider(m)
  <2>1. \A c \in Customers : outbox'[c] = outbox[c]
    <3>1. CASE outbox' = outbox
      BY <3>1
    <3>2. ASSUME NEW closest \in closest_riders,
                 outbox' = [cl \in Clients |->
                        IF cl \in closest /\ rider_connections[cl] = session[cl]
                        THEN Append(outbox[cl], [type |-> "DeliveryOffer",
                                                 customer |-> m.customer])
                        ELSE outbox[cl]]
          PROVE  \A c \in Customers : outbox'[c] = outbox[c]
      <4>1. closest \subseteq Riders
        BY DEF closest_riders
      <4> QED BY <1>2, <3>2, <4>1
    <3>3. \/ outbox' = outbox
          \/ \E closest \in closest_riders :
               outbox' = [cl \in Clients |->
                        IF cl \in closest /\ rider_connections[cl] = session[cl]
                        THEN Append(outbox[cl], [type |-> "DeliveryOffer",
                                                 customer |-> m.customer])
                        ELSE outbox[cl]]
      BY <1>13, Zenon DEF FindRider
    <3> QED BY <3>1, <3>2, <3>3
  <2> QED BY <2>1 DEF Reaches
<1>14. CASE DeliveryOfferAccepted(m) \/ DeliveryDone(m)
  <2>1. m.type = "DeliveryOfferAccepted" => m.rider \in Riders
    BY <1>1, MessageFields
  <2>2. \/ outbox' = outbox
        \/ \E cl \in {Gateway, m.rider} : \E s, line :
              /\ cl = Gateway \/ m.type = "DeliveryOfferAccepted"
              /\ outbox' = Post(outbox, cl, s, line)
    BY <1>14 DEF DeliveryOfferAccepted, DeliveryDone
  <2> QED BY <1>2, <1>3, <1>6, <2>1, <2>2
<1> QED BY <1>8, <1>9, <1>10, <1>11, <1>12, <1>13, <1>14 DEF Handle, m

(* A customer that has a connection keeps one.                             *)
LEMMA StaysConnected ==
    ASSUME TypeInv, Connected, [Next]_vars, NEW c \in Customers,
           customer_connections[c] # 0
    PROVE  customer_connections'[c] # 0
<1> DEFINE m == Head(mailbox)
<1>1. CASE customer_connections' = customer_connections
  BY <1>1
<1>2. CASE Handle /\ HandleRegisterCustomer(m)
  <2>1. m = mailbox[1] /\ 1 \in 1 .. Len(mailbox) /\ m \in Message
    BY <1>2, ItemsTaken, BoxTypes DEF Handle
  <2>2. m.session # 0
    BY <1>2, <2>1 DEF Connected, HandleRegisterCustomer
  <2>3. customer_connections' =
            [customer_connections EXCEPT ![m.customer] = m.session]
    BY <1>2 DEF HandleRegisterCustomer
  <2> HIDE DEF m
  <2> QED BY <2>2, <2>3 DEF TypeInv, TypeOK
<1>3. CASE \/ HandleRegisterRider(m) \/ HandleRegisterRestaurant(m)
           \/ HandleRegisterPaymentSystem(m) \/ SendRestaurantList(m)
           \/ AuthorizePayment(m) \/ PaymentAuthorized(m) \/ PaymentDenied(m)
  BY <1>1, <1>3 DEF HandleRegisterRider, HandleRegisterRestaurant,
     HandleRegisterPaymentSystem, SendRestaurantList, AuthorizePayment,
     PaymentAuthorized, PaymentDenied, connections
<1>4. CASE \/ OrderRequest(m) \/ OrderReady(m) \/ OrderCancelled(m)
           \/ FindRider(m) \/ DeliveryOfferAccepted(m) \/ DeliveryDone(m)
           \/ PaymentExecuted(m)
  BY <1>1, <1>4 DEF OrderRequest, OrderReady, OrderCancelled, FindRider,
     DeliveryOfferAccepted, DeliveryDone, PaymentExecuted, connections
<1>5. CASE Next /\ ~Handle
  BY <1>1, <1>5
     DEF Next, StartCustomer, StartRider, StartRestaurant, StartPaymentSystem,
         Restarted, Customer, ChooseRestaurant, FinishDelivery, GetRestaurants,
         Rider, DeliveryOffer, DeliveryOfferConfirmed, GoToCustomerLocation,
         ContinueOrder, PaymentSystem, ExecuteAutorization, ExecutePayment,
         managerVars, connections
<1>6. CASE UNCHANGED vars
  BY <1>1, <1>6 DEF vars, connections
<1> QED BY <1>2, <1>3, <1>4, <1>5, <1>6 DEF Handle

(* Steps at which nothing but lines over a connection reach the customers. *)
LEMMA ConnectedKept ==
    ASSUME TypeInv, Connected, [Next]_vars,
           \A c \in Customers :
              /\ session[c] # 0 => session'[c] # 0
              /\ placed'[c] > 0 => \/ placed[c] > 0 \/ prompts[c] > 0
                                   \/ outbox[c] # <<>>
              /\ prompts'[c] > 0 => prompts[c] > 0 \/ outbox[c] # <<>>
              /\ outbox'[c] # <<>> =>
                   \/ outbox[c] # <<>>
                   \/ customer_connections[c] # 0 /\ session[c] # 0,
           \A i \in 1 .. Len(mailbox') :
              mailbox'[i].type = "RegisterCustomer" =>
                 \/ \E j \in 1 .. Len(mailbox) : mailbox'[i] = mailbox[j]
                 \/ mailbox'[i].session # 0
    PROVE  Connected'
<1>1. ASSUME NEW c \in Customers
      PROVE  /\ placed'[c] > 0 \/ prompts'[c] > 0 \/ outbox'[c] # <<>>
                  => customer_connections'[c] # 0
             /\ prompts'[c] > 0 \/ outbox'[c] # <<>> => session'[c] # 0
  BY StaysConnected DEF Connected
<1>2. ASSUME NEW i \in 1 .. Len(mailbox'),
             mailbox'[i].type = "RegisterCustomer"
      PROVE  mailbox'[i].session # 0
  BY <1>2 DEF Connected
<1> QED BY <1>1, <1>2 DEF Connected

(* What riders, restaurants and the payment system send is an answer.      *)
LEMMA WorkMail ==
    ASSUME TypeInv,
           \/ \E r \in Riders : Rider(r)
           \/ \E x \in Restaurants : ContinueOrder(x)
           \/ PaymentSystem
    PROVE  \/ mailbox' = mailbox
           \/ \E n : /\ n.type \in {"DeliveryOfferAccepted", "DeliveryDone",
                                   "OrderReady", "OrderCancelled",
                                   "PaymentAuthorized", "PaymentDenied",
                                   "PaymentExecuted"}
                     /\ mailbox' = Append(mailbox, n)
<1>1. CASE \E r \in Riders : Rider(r)
  BY <1>1 DEF Rider, DeliveryOffer, DeliveryOfferConfirmed, GoToCustomerLocation
<1>2. ASSUME NEW x \in Restaurants, ContinueOrder(x)
      PROVE  \E n : /\ n.type \in {"OrderReady", "OrderCancelled"}
                    /\ mailbox' = Append(mailbox, n)
  BY <1>2 DEF ContinueOrder
<1>3. CASE PaymentSystem
  <2> DEFINE m == Head(outbox[Gateway])
  <2>1. /\ m.type \in {"AuthorizePayment", "ExecutePayment"}
        /\ \E t \in {"PaymentAuthorized", "PaymentDenied", "PaymentExecuted"} :
              mailbox' = Append(mailbox, [m EXCEPT !.type = t])
    BY <1>3 DEF PaymentSystem, ExecuteAutorization, ExecutePayment, Taken
  <2>2. Gateway \in Clients /\ outbox[Gateway] # <<>>
    BY <1>3 DEF PaymentSystem, ExecuteAutorization, ExecutePayment, Taken,
       Clients
  <2>3. m \in Line
    BY <2>2, TakeLine
  <2> HIDE DEF m
  <2>4. \A t : [m EXCEPT !.type = t].type = t
    BY <2>1, <2>3, LineFields
  <2>5. PICK t \in {"PaymentAuthorized", "PaymentDenied", "PaymentExecuted"} :
           mailbox' = Append(mailbox, [m EXCEPT !.type = t])
    BY <2>1
  <2> DEFINE n == [m EXCEPT !.type = t]
  <2>6. n.type = t /\ mailbox' = Append(mailbox, n)
    BY <2>4, <2>5
  <2> HIDE DEF n
  <2> QED BY <2>6
<1> QED BY <1>1, <1>2, <1>3

(* Connected is kept by every step.                                        *)
LEMMA ConnectedStep ==
    ASSUME TypeInv, Connected, [Next]_vars
    PROVE  Connected'
<1> DEFINE MailKept == \A i \in 1 .. Len(mailbox') :
              mailbox'[i].type = "RegisterCustomer" =>
                 \/ \E j \in 1 .. Len(mailbox) : mailbox'[i] = mailbox[j]
                 \/ mailbox'[i].session # 0
<1>1. /\ \A c \in Customers : c \in Clients /\ c # Gateway /\ c \notin Riders
                              /\ c \notin Restaurants
      /\ Riders \cup Restaurants \cup {Gateway} \subseteq Clients
      /\ placed \in [Customers -> 0 .. MaxOrders]
      /\ prompts \in [Customers -> Nat] /\ outbox \in Boxes
      /\ session \in [Clients -> Nat]
  BY BoxTypes, OrderFlowAssumption DEF Clients, TypeInv, TypeOK
<1>2. ASSUME mailbox' = mailbox PROVE MailKept
  BY <1>2
<1>3. ASSUME NEW n, mailbox' = Append(mailbox, n),
             n.type = "RegisterCustomer" => n.session # 0
      PROVE  MailKept
  BY <1>3, ItemsSent
<1>4. CASE Handle
  <2>1. MailKept
    BY <1>4, ItemsTaken
  <2>2. session' = session /\ placed' = placed /\ prompts' = prompts
    BY <1>4 DEF Handle, clientVars
  <2>3. Reaches(outbox')
    BY <1>4, CustomerLines
  <2> QED BY <2>1, <2>2, <2>3, ConnectedKept DEF Reaches
<1>5. ASSUME NEW cl \in Clients, NEW n, Restarted(cl, n),
             n.type = "RegisterCustomer" => n.session # 0,
             \A c \in Customers : prompts'[c] > 0 => prompts[c] > 0
      PROVE  Connected'
  <2>1. MailKept /\ placed' = placed
    BY <1>3, <1>5 DEF Restarted
  <2>2. \A c \in Customers : /\ session[c] # 0 => session'[c] # 0
                             /\ outbox'[c] # <<>> => outbox[c] # <<>>
    <3>1. /\ session' = [session EXCEPT ![cl] = @ + 1]
          /\ outbox' = [outbox EXCEPT ![cl] = <<>>]
      BY <1>5 DEF Restarted
    <3> QED BY <1>1, <3>1 DEF Boxes
  <2> QED BY <1>5, <2>1, <2>2, ConnectedKept
<1>6. ASSUME NEW c \in Customers, StartCustomer(c) PROVE Connected'
  <2>1. c \in Clients /\ session[c] + 1 # 0
    BY <1>1
  <2>2. \A d \in Customers : prompts'[d] > 0 => prompts[d] > 0
    BY <1>1, <1>6 DEF StartCustomer
  <2> QED BY <1>5, <1>6, <2>1, <2>2 DEF StartCustomer
<1>7. CASE \/ \E r \in Riders : StartRider(r)
           \/ \E x \in Restaurants : StartRestaurant(x)
           \/ StartPaymentSystem
  <2>1. \A c \in Customers : prompts'[c] > 0 => prompts[c] > 0
    BY <1>7 DEF StartRider, StartRestaurant, StartPaymentSystem
  <2>2. ASSUME NEW r \in Riders, StartRider(r) PROVE Connected'
    BY <1>1, <1>5, <2>1, <2>2 DEF StartRider
  <2>3. ASSUME NEW x \in Restaurants, StartRestaurant(x) PROVE Connected'
    BY <1>1, <1>5, <2>1, <2>3 DEF StartRestaurant
  <2>4. CASE StartPaymentSystem
    BY <1>1, <1>5, <2>1, <2>4 DEF StartPaymentSystem
  <2> QED BY <1>7, <2>2, <2>3, <2>4
<1>8. ASSUME NEW c \in Customers, ChooseRestaurant(c) PROVE Connected'
  <2>1. PICK n : n.type = "AuthorizePayment" /\ mailbox' = Append(mailbox, n)
    BY <1>8 DEF ChooseRestaurant
  <2>2. MailKept
    BY <1>3, <2>1
  <2>3. /\ session' = session /\ prompts' = prompts /\ outbox[c] # <<>>
        /\ \A d \in Customers : /\ placed'[d] # placed[d] => d = c
                                /\ outbox'[d] # outbox[d] => d = c
    BY <1>1, <1>8 DEF ChooseRestaurant, Taken, Boxes
  <2> QED BY <2>2, <2>3, ConnectedKept
<1>9. ASSUME NEW c \in Customers, FinishDelivery(c) PROVE Connected'
  <2>1. MailKept
    BY <1>2, <1>9 DEF FinishDelivery
  <2>2. /\ session' = session /\ placed' = placed /\ outbox[c] # <<>>
        /\ \A d \in Customers : /\ prompts'[d] # prompts[d] => d = c
                                /\ outbox'[d] # outbox[d] => d = c
    BY <1>1, <1>9 DEF FinishDelivery, Taken, Boxes
  <2> QED BY <2>1, <2>2, ConnectedKept
<1>10. ASSUME NEW c \in Customers, GetRestaurants(c) PROVE Connected'
  <2>1. session[c] # 0
    BY <1>10 DEF GetRestaurants, Connected
  <2>2. MailKept
    BY <1>3, <1>10, <2>1 DEF GetRestaurants
  <2>3. /\ session' = session /\ placed' = placed /\ outbox' = outbox
        /\ prompts[c] > 0
        /\ \A d \in Customers : prompts'[d] # prompts[d] => d = c
    BY <1>1, <1>10 DEF GetRestaurants
  <2> QED BY <2>2, <2>3, ConnectedKept
<1>11. CASE \/ \E r \in Riders : Rider(r)
            \/ \E x \in Restaurants : ContinueOrder(x)
            \/ PaymentSystem
  <2>1. session' = session /\ placed' = placed /\ prompts' = prompts
    BY <1>11 DEF Rider, DeliveryOffer, DeliveryOfferConfirmed,
       GoToCustomerLocation, ContinueOrder, PaymentSystem, ExecuteAutorization,
       ExecutePayment, clientVars
  <2>2. MailKept
    BY <1>2, <1>3, <1>11, WorkMail
  <2>3. \A c \in Customers : outbox'[c] = outbox[c]
    BY <1>1, <1>11 DEF Boxes, Rider, DeliveryOffer, DeliveryOfferConfirmed,
       GoToCustomerLocation, ContinueOrder, PaymentSystem, ExecuteAutorization,
       ExecutePayment
  <2> QED BY <2>1, <2>2, <2>3, ConnectedKept
<1>12. CASE UNCHANGED vars
  BY <1>2, <1>12, ConnectedKept DEF vars, clientVars
<1> QED BY <1>4, <1>6, <1>7, <1>8, <1>9, <1>10, <1>11, <1>12 DEF Next, Customer

----------------------------------------------------------------------------
(* The restaurants that register.                                          *)

(* What a handler leaves of the restaurants, by the type of its message.   *)
LEMMA KitchenFrame ==
    ASSUME Handle
    PROVE  LET m == Head(mailbox)
           IN  /\ m.type = "RegisterRestaurant" => HandleRegisterRestaurant(m)
               /\ m.type = "OrderReady" => OrderReady(m)
               /\ m.type # "RegisterRestaurant" =>
                    restaurant_connections' = restaurant_connections
               /\ m.type \notin {"RegisterRestaurant", "OrderRequest"} =>
                    cooking' = cooking
               /\ m.type \notin {"OrderRequest", "OrderReady"} =>
                    pending_orders' = pending_orders
               /\ session' = session /\ placed' = placed
<1> DEFINE m == Head(mailbox)
<1>1. session' = session /\ placed' = placed
  BY DEF Handle, clientVars
<1>2. CASE \/ HandleRegisterCustomer(m) \/ HandleRegisterRider(m)
           \/ HandleRegisterPaymentSystem(m) \/ SendRestaurantList(m)
           \/ AuthorizePayment(m) \/ PaymentAuthorized(m) \/ PaymentDenied(m)
  <2>1. /\ m.type \notin {"RegisterRestaurant", "OrderRequest", "OrderReady"}
        /\ restaurant_connections' = restaurant_connections
        /\ cooking' = cooking /\ pending_orders' = pending_orders
    BY <1>2 DEF HandleRegisterCustomer, HandleRegisterRider,
       HandleRegisterPaymentSystem, SendRestaurantList, AuthorizePayment,
       PaymentAuthorized, PaymentDenied, connections, orderVars
  <2> QED BY <1>1, <2>1
<1>3. CASE \/ OrderCancelled(m) \/ FindRider(m) \/ DeliveryOfferAccepted(m)
           \/ DeliveryDone(m) \/ PaymentExecuted(m)
  <2>1. /\ m.type \notin {"RegisterRestaurant", "OrderRequest", "OrderReady"}
        /\ restaurant_connections' = restaurant_connections
        /\ cooking' = cooking /\ pending_orders' = pending_orders
    BY <1>3 DEF OrderCancelled, FindRider, DeliveryOfferAccepted, DeliveryDone,
       PaymentExecuted, connections, orderVars
  <2> QED BY <1>1, <2>1
<1>4. CASE HandleRegisterRestaurant(m)
  BY <1>1, <1>4 DEF HandleRegisterRestaurant, orderVars
<1>5. CASE OrderRequest(m)
  BY <1>1, <1>5 DEF OrderRequest, connections
<1>6. CASE OrderReady(m)
  BY <1>1, <1>6 DEF OrderReady, connections
<1> QED BY <1>2, <1>3, <1>4, <1>5, <1>6 DEF Handle

(* The registration of a restaurant has nothing but its fields.            *)
LEMMA RegistrationFields ==
    ASSUME NEW m \in Message, NEW n \in Message,
           m.type = "RegisterRestaurant", n.type = "RegisterRestaurant"
    PROVE  /\ m.restaurant \in Restaurants /\ m.session \in Nat
           /\ m.restaurant = n.restaurant /\ m.session = n.session => m = n
<1>1. /\ m \in [type : {"RegisterRestaurant"}, restaurant : Restaurants,
                session : Nat]
      /\ n \in [type : {"RegisterRestaurant"}, restaurant : Restaurants,
                session : Nat]
  BY DEF Message
<1> QED BY <1>1

(* The registrations on their way move up, none is added, and the          *)
(* restaurants that run cook no more than they are connected to.           *)
LEMMA RegisteringKept ==
    ASSUME TypeInv, Registering, NEW k \in {0, 1},
           \A i \in 1 .. Len(mailbox') :
              mailbox'[i].type = "RegisterRestaurant" =>
                 i + k \in 1 .. Len(mailbox) /\ mailbox'[i] = mailbox[i + k],
           \A x \in Restaurants :
              /\ session'[x] = session[x]
              /\ restaurant_connections'[x] = restaurant_connections[x]
              /\ \/ cooking'[x] = {} \/ cooking[x] # {}
                 \/ restaurant_connections[x] = session[x]
    PROVE  Registering'
<1>1. mailbox \in Seq(Message)
  BY BoxTypes
<1>2. ASSUME NEW i \in 1 .. Len(mailbox'),
             mailbox'[i].type = "RegisterRestaurant"
      PROVE  /\ i + k \in 1 .. Len(mailbox) /\ mailbox'[i] = mailbox[i + k]
             /\ mailbox'[i].restaurant \in Restaurants
  <2>1. i + k \in 1 .. Len(mailbox) /\ mailbox'[i] = mailbox[i + k]
    BY <1>2
  <2>2. mailbox[i + k] \in Message
    BY <1>1, <2>1
  <2> QED BY <1>2, <2>1, <2>2, RegistrationFields
<1>3. ASSUME NEW i \in 1 .. Len(mailbox'),
             mailbox'[i].type = "RegisterRestaurant"
      PROVE  /\ mailbox'[i].session <= session'[mailbox'[i].restaurant]
             /\ \A j \in 1 .. Len(mailbox') : mailbox'[j] = mailbox'[i] => j = i
  <2>1. ASSUME NEW j \in 1 .. Len(mailbox'), mailbox'[j] = mailbox'[i]
        PROVE  j = i
    <3>1. /\ i + k \in 1 .. Len(mailbox) /\ mailbox'[i] = mailbox[i + k]
          /\ j + k \in 1 .. Len(mailbox) /\ mailbox'[j] = mailbox[j + k]
      BY <1>2, <1>3, <2>1
    <3>2. j + k = i + k
      BY <1>3, <2>1, <3>1 DEF Registering
    <3> QED BY <3>2
  <2> QED BY <1>2, <1>3, <2>1 DEF Registering
<1>4. ASSUME NEW i \in 1 .. Len(mailbox'), Current(mailbox[i])'
      PROVE  LET x == mailbox'[i].restaurant
             IN  restaurant_connections'[x] # session'[x] /\ cooking'[x] = {}
  <2>1. /\ i + k \in 1 .. Len(mailbox) /\ mailbox'[i] = mailbox[i + k]
        /\ mailbox'[i].restaurant \in Restaurants
    BY <1>2, <1>4 DEF Current
  <2>2. Current(mailbox[i + k])
    BY <1>4, <2>1 DEF Current
  <2> DEFINE x == mailbox[i + k].restaurant
  <2>3. restaurant_connections[x] # session[x] /\ cooking[x] = {}
    BY <2>1, <2>2 DEF Registering
  <2>4. x = mailbox'[i].restaurant /\ x \in Restaurants
    BY <2>1
  <2> HIDE DEF x
  <2> QED BY <2>3, <2>4
<1> QED BY <1>3, <1>4 DEF Registering

(* A restaurant registers: any other registration of it is older.          *)
LEMMA RegisteringHandle ==
    ASSUME TypeInv, Registering, Handle,
           Head(mailbox).type = "RegisterRestaurant"
    PROVE  Registering'
<1> DEFINE m == Head(mailbox)
           y == m.restaurant
<1>1. /\ HandleRegisterRestaurant(m) /\ session' = session
      /\ m = mailbox[1] /\ 1 \in 1 .. Len(mailbox)
      /\ mailbox \in Seq(Message) /\ m \in Message
      /\ restaurant_connections \in [Restaurants -> Nat]
      /\ \A x \in Restaurants : session[x] \in Nat
  <2>1. mailbox # <<>> /\ mailbox \in Seq(Message)
    BY BoxTypes DEF Handle
  <2>2. m \in Message
    BY <2>1
  <2>3. /\ restaurant_connections \in [Restaurants -> Nat]
        /\ \A x \in Restaurants : session[x] \in Nat
    BY DEF TypeInv, TypeOK, Clients
  <2> QED BY <2>1, <2>2, <2>3, KitchenFrame, ItemsTaken
<1>2. y \in Restaurants /\ m.session \in Nat /\ m.session <= session[y]
  BY <1>1, RegistrationFields DEF Registering
<1>3. /\ restaurant_connections'[y] = m.session
      /\ m.session # session[y] => cooking' = cooking
      /\ \A x \in Restaurants \ {y} :
            /\ restaurant_connections'[x] = restaurant_connections[x]
            /\ cooking'[x] = cooking[x]
  <2>1. cooking \in [Restaurants -> SUBSET Orders]
    BY DEF TypeInv, TypeOK
  <2> HIDE DEF m
  <2> QED BY <1>1, <1>2, <2>1 DEF HandleRegisterRestaurant, Prepare
<1>4. ASSUME NEW i \in 1 .. Len(mailbox'),
             mailbox'[i].type = "RegisterRestaurant"
      PROVE  /\ i + 1 \in 1 .. Len(mailbox) /\ mailbox'[i] = mailbox[i + 1]
             /\ mailbox'[i] \in Message
             /\ mailbox'[i].restaurant \in Restaurants
             /\ mailbox'[i] # m
  <2>1. i + 1 \in 1 .. Len(mailbox) /\ mailbox'[i] = mailbox[i + 1]
    BY <1>4, ItemsTaken
  <2>2. mailbox[i + 1] \in Message /\ i + 1 # 1
    BY <1>1, <2>1
  <2>3. mailbox[i + 1] # m
    BY <1>1, <1>4, <2>1, <2>2 DEF Registering
  <2> QED BY <1>1, <1>4, <2>1, <2>2, <2>3, RegistrationFields
<1>5. ASSUME NEW i \in 1 .. Len(mailbox'),
             mailbox'[i].type = "RegisterRestaurant"
      PROVE  /\ mailbox'[i].session <= session'[mailbox'[i].restaurant]
             /\ \A j \in 1 .. Len(mailbox') : mailbox'[j] = mailbox'[i] => j = i
  <2>1. ASSUME NEW j \in 1 .. Len(mailbox'), mailbox'[j] = mailbox'[i]
        PROVE  j = i
    <3>1. /\ i + 1 \in 1 .. Len(mailbox) /\ mailbox'[i] = mailbox[i + 1]
          /\ j + 1 \in 1 .. Len(mailbox) /\ mailbox'[j] = mailbox[j + 1]
      BY <1>4, <1>5, <2>1
    <3>2. j + 1 = i + 1
      BY <1>5, <2>1, <3>1 DEF Registering
    <3> QED BY <3>2
  <2>2. i + 1 \in 1 .. Len(mailbox) /\ mailbox'[i] = mailbox[i + 1]
    BY <1>4, <1>5
  <2>3. mailbox[i + 1].session <= session[mailbox[i + 1].restaurant]
    BY <1>5, <2>2 DEF Registering
  <2> QED BY <1>1, <2>1, <2>2, <2>3
<1>6. ASSUME NEW i \in 1 .. Len(mailbox'), Current(mailbox[i])'
      PROVE  LET x == mailbox'[i].restaurant
             IN  restaurant_connections'[x] # session'[x] /\ cooking'[x] = {}
  <2>1. /\ mailbox'[i].type = "RegisterRestaurant"
        /\ mailbox'[i].session = session[mailbox'[i].restaurant]
    BY <1>1, <1>6 DEF Current
  <2>2. /\ i + 1 \in 1 .. Len(mailbox) /\ mailbox'[i] = mailbox[i + 1]
        /\ mailbox'[i].restaurant \in Restaurants /\ mailbox'[i] # m
        /\ mailbox'[i] \in Message
    BY <1>4, <2>1
  <2> DEFINE x == mailbox[i + 1].restaurant
  <2>3. restaurant_connections[x] # session[x] /\ cooking[x] = {}
    BY <2>1, <2>2 DEF Registering, Current
  <2>4. x = y => m.session # session[y]
    <3>1. m.type = "RegisterRestaurant"
      OBVIOUS
    <3> HIDE DEF m
    <3> QED BY <1>1, <2>1, <2>2, <3>1, RegistrationFields
  <2>5. x = mailbox'[i].restaurant /\ x \in Restaurants
    BY <2>2
  <2> HIDE DEF x, y, m
  <2> QED BY <1>1, <1>3, <2>3, <2>4, <2>5
<1>7. \A x \in Restaurants : restaurant_connections'[x] <= session'[x]
  <2> HIDE DEF y, m
  <2> QED BY <1>1, <1>2, <1>3 DEF Registering
<1> QED BY <1>5, <1>6, <1>7 DEF Registering

(* A restaurant starts: its registration is newer than any other.          *)
LEMMA RegisteringStart ==
    ASSUME TypeInv, Registering, NEW y \in Restaurants, StartRestaurant(y)
    PROVE  Registering'
<1> DEFINE n == [type |-> "RegisterRestaurant", restaurant |-> y,
                 session |-> session[y] + 1]
<1>1. /\ mailbox' = Append(mailbox, n) /\ mailbox \in Seq(Message)
      /\ restaurant_connections' = restaurant_connections
      /\ restaurant_connections \in [Restaurants -> Nat]
      /\ \A x \in Restaurants : session[x] \in Nat
  BY BoxTypes
     DEF StartRestaurant, Restarted, connections, TypeInv, TypeOK, Clients
<1>2. /\ session'[y] = session[y] + 1 /\ cooking'[y] = {}
      /\ \A x \in Restaurants \ {y} : /\ session'[x] = session[x]
                                      /\ cooking'[x] = cooking[x]
  BY DEF StartRestaurant, Restarted, TypeInv, TypeOK, Clients
<1>3. /\ n.type = "RegisterRestaurant" /\ n.restaurant = y
      /\ n.session = session[y] + 1
  OBVIOUS
<1> HIDE DEF n
<1>4. ASSUME NEW i \in 1 .. Len(mailbox'),
             mailbox'[i].type = "RegisterRestaurant"
      PROVE  \/ /\ i \in 1 .. Len(mailbox) /\ mailbox'[i] = mailbox[i]
                /\ mailbox[i].restaurant \in Restaurants
                /\ mailbox[i].session \in Nat
                /\ mailbox[i].session <= session[mailbox[i].restaurant]
                /\ mailbox'[i] # n
             \/ i = Len(mailbox) + 1 /\ mailbox'[i] = n
  <2>1. CASE i \in 1 .. Len(mailbox)
    <3>1. mailbox'[i] = mailbox[i] /\ mailbox[i] \in Message
      BY <1>1, <2>1, ItemsSent
    <3>2. /\ mailbox[i].restaurant \in Restaurants /\ mailbox[i].session \in Nat
          /\ mailbox[i].session <= session[mailbox[i].restaurant]
      BY <1>4, <2>1, <3>1, RegistrationFields DEF Registering
    <3>3. mailbox[i] # n
      BY <1>1, <1>3, <3>2
    <3> QED BY <2>1, <3>1, <3>2, <3>3
  <2>2. CASE i \notin 1 .. Len(mailbox)
    BY <1>1, <2>2, ItemsSent
  <2> QED BY <2>1, <2>2
<1>5. ASSUME NEW i \in 1 .. Len(mailbox'),
             mailbox'[i].type = "RegisterRestaurant"
      PROVE  /\ mailbox'[i].session <= session'[mailbox'[i].restaurant]
             /\ \A j \in 1 .. Len(mailbox') : mailbox'[j] = mailbox'[i] => j = i
  <2>1. mailbox'[i].session <= session'[mailbox'[i].restaurant]
    BY <1>1, <1>2, <1>3, <1>4, <1>5
  <2>2. ASSUME NEW j \in 1 .. Len(mailbox'), mailbox'[j] = mailbox'[i]
        PROVE  j = i
    <3>1. mailbox'[j].type = "RegisterRestaurant"
      BY <1>5, <2>2
    <3>2. \/ i \in 1 .. Len(mailbox) /\ mailbox'[i] = mailbox[i] /\ mailbox'[i] # n
          \/ i = Len(mailbox) + 1 /\ mailbox'[i] = n
      BY <1>4, <1>5
    <3>3. \/ j \in 1 .. Len(mailbox) /\ mailbox'[j] = mailbox[j] /\ mailbox'[j] # n
          \/ j = Len(mailbox) + 1 /\ mailbox'[j] = n
      BY <1>4, <3>1
    <3> QED BY <1>5, <2>2, <3>2, <3>3 DEF Registering
  <2> QED BY <2>1, <2>2
<1>6. ASSUME NEW i \in 1 .. Len(mailbox'), Current(mailbox[i])'
      PROVE  LET x == mailbox'[i].restaurant
             IN  restaurant_connections'[x] # session'[x] /\ cooking'[x] = {}
  <2>1. /\ mailbox'[i].type = "RegisterRestaurant"
        /\ mailbox'[i].session = session'[mailbox'[i].restaurant]
    BY <1>6 DEF Current
  <2>2. CASE i \in 1 .. Len(mailbox) /\ mailbox'[i] # n
    <3>1. /\ mailbox'[i] = mailbox[i] /\ mailbox[i].restaurant \in Restaurants
          /\ mailbox[i].session \in Nat
          /\ mailbox[i].session <= session[mailbox[i].restaurant]
      BY <1>4, <2>1, <2>2
    <3>2. mailbox[i].restaurant # y
      BY <1>1, <1>2, <2>1, <3>1
    <3>3. Current(mailbox[i])
      BY <1>2, <2>1, <3>1, <3>2 DEF Current
    <3>4. LET x == mailbox[i].restaurant
          IN  restaurant_connections[x] # session[x] /\ cooking[x] = {}
      BY <2>2, <3>3 DEF Registering
    <3> QED BY <1>1, <1>2, <3>1, <3>2, <3>4
  <2>3. CASE mailbox'[i] = n
    <3>1. restaurant_connections[y] \in Nat /\ restaurant_connections[y] <= session[y]
      BY <1>1 DEF Registering
    <3> QED BY <1>1, <1>2, <1>3, <2>3, <3>1
  <2> QED BY <1>4, <2>1, <2>2, <2>3
<1>7. \A x \in Restaurants : restaurant_connections'[x] <= session'[x]
  BY <1>1, <1>2 DEF Registering
<1> QED BY <1>5, <1>6, <1>7 DEF Registering

(* Registrations stay in order at every step.                                *)
LEMMA RegisteringStep ==
    ASSUME TypeInv, Registering, [Next]_vars
    PROVE  Registering'
<1> DEFINE m == Head(mailbox)
<1>1. /\ cooking \in [Restaurants -> SUBSET Orders]
      /\ \A x \in Restaurants : x \in Clients /\ x # Gateway
                                /\ x \notin Customers /\ x \notin Riders
      /\ session \in [Clients -> Nat] /\ mailbox \in Seq(Message)
  BY BoxTypes, OrderFlowAssumption DEF Clients, TypeInv, TypeOK
<1>2. ASSUME \A i \in 1 .. Len(mailbox') :
                 mailbox'[i].type = "RegisterRestaurant" =>
                    i \in 1 .. Len(mailbox) /\ mailbox'[i] = mailbox[i],
             \A x \in Restaurants : session'[x] = session[x],
             restaurant_connections' = restaurant_connections,
             \A x \in Restaurants : cooking[x] = {} => cooking'[x] = {}
      PROVE  Registering'
  <2>1. 0 \in {0, 1} /\ \A i \in 1 .. Len(mailbox') : i + 0 = i
    OBVIOUS
  <2> QED BY <1>2, <2>1, RegisteringKept
<1>3. ASSUME NEW n, n.type # "RegisterRestaurant",
             mailbox' = mailbox \/ mailbox' = Append(mailbox, n)
      PROVE  \A i \in 1 .. Len(mailbox') :
                 mailbox'[i].type = "RegisterRestaurant" =>
                    i \in 1 .. Len(mailbox) /\ mailbox'[i] = mailbox[i]
  BY <1>3, ItemsSent
<1>4. CASE Handle /\ m.type # "RegisterRestaurant"
  <2>1. /\ restaurant_connections' = restaurant_connections
        /\ session' = session
        /\ m.type # "OrderRequest" => cooking' = cooking
    BY <1>4, KitchenFrame
  <2>2. \A i \in 1 .. Len(mailbox') :
            mailbox'[i].type = "RegisterRestaurant" =>
               i + 1 \in 1 .. Len(mailbox) /\ mailbox'[i] = mailbox[i + 1]
    BY <1>4, ItemsTaken
  <2>3. ASSUME NEW x \in Restaurants
        PROVE  \/ cooking'[x] = {} \/ cooking[x] # {}
               \/ restaurant_connections[x] = session[x]
    <3>1. CASE m.type = "OrderRequest"
      <4>1. OrderRequest(m)
        BY <1>4, <3>1, HandleByType
      <4>2. \/ cooking' = cooking
            \/ \E os : Prepare(m.restaurant,
                               restaurant_connections[m.restaurant], os)
        BY <4>1 DEF OrderRequest
      <4> HIDE DEF m
      <4> QED BY <1>1, <4>2 DEF Prepare
    <3> QED BY <2>1, <3>1
  <2> QED BY <2>1, <2>2, <2>3, RegisteringKept
<1>5. CASE \/ \E c \in Customers : StartCustomer(c)
           \/ \E r \in Riders : StartRider(r)
           \/ StartPaymentSystem
  <2>1. /\ restaurant_connections' = restaurant_connections
        /\ cooking' = cooking
        /\ \A x \in Restaurants : session'[x] = session[x]
    BY <1>1, <1>5 DEF StartCustomer, StartRider, StartPaymentSystem, Restarted,
       connections
  <2>2. \E n : n.type # "RegisterRestaurant" /\ mailbox' = Append(mailbox, n)
    BY <1>5 DEF StartCustomer, StartRider, StartPaymentSystem, Restarted
  <2> QED BY <1>2, <1>3, <2>1, <2>2
<1>6. CASE \E c \in Customers : Customer(c) \/ GetRestaurants(c)
  <2>1. /\ restaurant_connections' = restaurant_connections
        /\ cooking' = cooking /\ session' = session
    BY <1>6 DEF Customer, ChooseRestaurant, FinishDelivery, GetRestaurants,
       managerVars, connections
  <2>2. \/ mailbox' = mailbox
        \/ \E n : n.type # "RegisterRestaurant" /\ mailbox' = Append(mailbox, n)
    BY <1>6 DEF Customer, ChooseRestaurant, FinishDelivery, GetRestaurants
  <2>3. [type |-> "FindRider"].type # "RegisterRestaurant"
    OBVIOUS
  <2> QED BY <1>2, <1>3, <2>1, <2>2, <2>3
<1>7. CASE \/ \E r \in Riders : Rider(r)
           \/ \E x \in Restaurants : ContinueOrder(x)
           \/ PaymentSystem
  <2>1. restaurant_connections' = restaurant_connections /\ session' = session
    BY <1>7 DEF Rider, DeliveryOffer, DeliveryOfferConfirmed,
       GoToCustomerLocation, ContinueOrder, PaymentSystem, ExecuteAutorization,
       ExecutePayment, managerVars, connections, clientVars
  <2>2. \A x \in Restaurants : cooking[x] = {} => cooking'[x] = {}
    BY <1>1, <1>7 DEF Rider, DeliveryOffer, DeliveryOfferConfirmed,
       GoToCustomerLocation, ContinueOrder, PaymentSystem, ExecuteAutorization,
       ExecutePayment
  <2>3. [type |-> "FindRider"].type # "RegisterRestaurant"
    OBVIOUS
  <2> QED BY <1>2, <1>3, <1>7, <2>1, <2>2, <2>3, WorkMail
<1>8. CASE \E x \in Restaurants : StartRestaurant(x)
  BY <1>8, RegisteringStart
<1>9. CASE UNCHANGED vars
  <2>1. [type |-> "FindRider"].type # "RegisterRestaurant"
    OBVIOUS
  <2> QED BY <1>2, <1>3, <1>9, <2>1 DEF vars, connections, clientVars
<1> QED BY <1>4, <1>5, <1>6, <1>7, <1>8, <1>9, RegisteringHandle DEF Next

----------------------------------------------------------------------------
(* The request of a customer on its way, of any of the types or of those   *)
(* before the payment is authorized.                                       *)
Flying(types, c) == Held(mailbox, types, c, 1) \/ Sent(c, 1)

FlyingTypes == {Requests, {"AuthorizePayment", "PaymentDenied"}}

(* A handler keeps no request on its way but those that were.              *)
LEMMA FlyingHandle ==
    ASSUME TypeInv, Handle, NEW types \in FlyingTypes, NEW c, Flying(types, c)'
    PROVE  Flying(types, c)
<1> DEFINE m == Head(mailbox)
           rest == Tail(mailbox)
           lines == outbox[Gateway]
<1>1. /\ mailbox # <<>> /\ mailbox \in Seq(Message) /\ lines \in Seq(Line)
      /\ m \in Message /\ rest \in Seq(Message)
  <2>1. mailbox # <<>> /\ mailbox \in Seq(Message) /\ lines \in Seq(Line)
    BY BoxTypes DEF Handle
  <2> QED BY <2>1
<1>2. /\ "AuthorizePayment" \in types
      /\ "SendRestaurantList" \notin types /\ "FindRider" \notin types
      /\ "OrderRequest" \in types => "PaymentAuthorized" \in types
  BY DEF FlyingTypes, Requests
<1>3. Held(rest, types, c, 1) => Held(mailbox, types, c, 1)
  BY <1>1, HeldTail
<1>4. m.type \in types /\ m.customer = c /\ m.price = 1
        => Held(mailbox, types, c, 1)
  BY <1>1, HeldTail
<1>5. ASSUME NEW n, mailbox' = Append(rest, n), Held(mailbox', types, c, 1)
      PROVE  \/ Held(rest, types, c, 1)
             \/ n.type \in types /\ n.customer = c /\ n.price = 1
  BY <1>1, <1>5, HeldAppend
<1>6. Held(mailbox', types, c, 1) => Held(mailbox, types, c, 1)
  <2>1. CASE mailbox' = rest
    BY <1>3, <2>1
  <2>2. CASE \E n : /\ n.type \in {"SendRestaurantList", "FindRider"}
                    /\ mailbox' = Append(rest, n)
    BY <1>2, <1>3, <1>5, <2>2
  <2>3. CASE /\ m.type = "PaymentAuthorized"
             /\ mailbox' = Append(rest, [m EXCEPT !.type = "OrderRequest"])
    <3> DEFINE n == [m EXCEPT !.type = "OrderRequest"]
    <3>1. n.type = "OrderRequest" /\ n.customer = m.customer /\ n.price = m.price
      BY <1>1, <2>3, RequestFields DEF Requests
    <3>2. mailbox' = Append(rest, n) /\ m.type = "PaymentAuthorized"
      BY <2>3
    <3> HIDE DEF n, m, rest
    <3> QED BY <1>2, <1>3, <1>4, <1>5, <3>1, <3>2
  <2> QED BY <2>1, <2>2, <2>3, HandleMail
<1>7. Sent(c, 1)' => Sent(c, 1) \/ Held(mailbox, types, c, 1)
  <2>1. ASSUME NEW n, outbox'[Gateway] = Append(lines, n), Sent(c, 1)'
        PROVE  \/ Sent(c, 1)
               \/ n.type = "AuthorizePayment" /\ n.customer = c /\ n.price = 1
    <3> HIDE DEF lines
    <3>1. Held(Append(lines, n), {"AuthorizePayment"}, c, 1)
      BY <2>1 DEF Sent
    <3>2. \/ Held(lines, {"AuthorizePayment"}, c, 1)
          \/ n.type = "AuthorizePayment" /\ n.customer = c /\ n.price = 1
      BY <1>1, <3>1, HeldAppend
    <3> QED BY <3>2 DEF Sent, lines
  <2>2. CASE outbox'[Gateway] = lines
    BY <2>2 DEF Sent
  <2>3. CASE /\ m.type = "AuthorizePayment"
             /\ outbox'[Gateway] = Append(lines, m)
    BY <1>2, <1>4, <2>1, <2>3
  <2>4. CASE \E a, p : outbox'[Gateway] = Append(lines,
                  [type |-> "ExecutePayment", customer |-> a, price |-> p])
    BY <2>1, <2>4
  <2> QED BY <2>2, <2>3, <2>4, HandleLines
<1> QED BY <1>6, <1>7 DEF Flying

(* A client adds none, but for the customer that orders.                   *)
LEMMA FlyingSent ==
    ASSUME TypeInv, NEW types \in FlyingTypes, NEW c,
           outbox'[Gateway] \in {outbox[Gateway], <<>>},
           \/ mailbox' = mailbox
           \/ \E n : /\ n.type \in Requests => n.customer # c
                     /\ mailbox' = Append(mailbox, n),
           Flying(types, c)'
    PROVE  Flying(types, c)
<1>1. Sent(c, 1)' => Sent(c, 1)
  BY DEF Sent, Held
<1>2. types \subseteq Requests
  BY DEF FlyingTypes, Requests
<1>3. mailbox \in Seq(Message)
  BY BoxTypes
<1>4. Held(mailbox', types, c, 1) => Held(mailbox, types, c, 1)
  <2>1. ASSUME NEW n, n.type \in Requests => n.customer # c,
               mailbox' = Append(mailbox, n), Held(mailbox', types, c, 1)
        PROVE  Held(mailbox, types, c, 1)
    <3>1. \/ Held(mailbox, types, c, 1)
          \/ n.type \in types /\ n.customer = c /\ n.price = 1
      BY <1>3, <2>1, HeldAppend
    <3> QED BY <1>2, <2>1, <3>1
  <2> QED BY <2>1
<1> QED BY <1>1, <1>4 DEF Flying

(* The payment system answers what was asked of it.                        *)
LEMMA FlyingPayment ==
    ASSUME TypeInv, NEW types \in FlyingTypes, NEW c, PaymentSystem,
           Flying(types, c)'
    PROVE  Flying(types, c)
<1> DEFINE line == Head(outbox[Gateway])
           lines == outbox[Gateway]
<1>1. lines \in Seq(Line) /\ lines # <<>> /\ line \in Line
  <2>1. lines \in Seq(Line) /\ lines # <<>>
    BY BoxTypes DEF PaymentSystem, ExecuteAutorization, ExecutePayment, Taken
  <2> QED BY <2>1
<1>2. outbox'[Gateway] = Tail(lines)
  BY BoxTypes DEF PaymentSystem, ExecuteAutorization, ExecutePayment, Boxes
<1> HIDE DEF lines
<1>3. Held(Tail(lines), {"AuthorizePayment"}, c, 1) =>
          Held(lines, {"AuthorizePayment"}, c, 1)
  BY <1>1, HeldTail
<1>4. Sent(c, 1)' => Sent(c, 1)
  BY <1>2, <1>3 DEF Sent, lines
<1>5. PICK t \in {"PaymentAuthorized", "PaymentDenied", "PaymentExecuted"} :
          /\ mailbox' = Append(mailbox, [line EXCEPT !.type = t])
          /\ t # "PaymentExecuted" => line.type = "AuthorizePayment"
          /\ line.type \in {"AuthorizePayment", "ExecutePayment"}
  BY DEF PaymentSystem, ExecuteAutorization, ExecutePayment, Taken
<1> DEFINE n == [line EXCEPT !.type = t]
<1> HIDE DEF line
<1>6. n.type = t /\ n.customer = line.customer /\ n.price = line.price
  BY <1>1, <1>5, LineFields
<1> HIDE DEF n
<1>7. mailbox' = Append(mailbox, n) /\ mailbox \in Seq(Message)
  BY <1>5, BoxTypes DEF n
<1>8. Held(mailbox', types, c, 1) =>
          \/ Held(mailbox, types, c, 1)
          \/ n.type \in types /\ n.customer = c /\ n.price = 1
  BY <1>7, HeldAppend
<1>9. n.type \in types => line.type = "AuthorizePayment"
  BY <1>5, <1>6 DEF FlyingTypes, Requests
<1>10. line.type = "AuthorizePayment" /\ line.customer = c /\ line.price = 1
         => Sent(c, 1)
  <2>1. line = Head(lines)
    BY DEF line, lines
  <2>2. line.type = "AuthorizePayment"
          => Held(lines, {"AuthorizePayment"}, line.customer, line.price)
    BY <1>1, <2>1, HeldTail
  <2> QED BY <2>2 DEF Sent, lines
<1> QED BY <1>4, <1>6, <1>8, <1>9, <1>10 DEF Flying

(* Only the customer itself puts a request on its way.                     *)
LEMMA FlyingStep ==
    ASSUME TypeInv, [Next]_vars, NEW types \in FlyingTypes, NEW c,
           ~ChooseRestaurant(c), Flying(types, c)'
    PROVE  Flying(types, c)
<1>1. /\ \A cl \in Customers \cup Riders \cup Restaurants :
            cl \in Clients /\ cl # Gateway
      /\ outbox \in Boxes /\ Gateway \in Clients
  BY BoxTypes, OrderFlowAssumption DEF Clients
<1>2. CASE \/ \E a \in Customers : StartCustomer(a)
           \/ \E r \in Riders : StartRider(r)
           \/ \E x \in Restaurants : StartRestaurant(x)
           \/ StartPaymentSystem
  <2>1. outbox'[Gateway] \in {outbox[Gateway], <<>>}
    BY <1>1, <1>2 DEF StartCustomer, StartRider, StartRestaurant,
       StartPaymentSystem, Restarted, Boxes
  <2>2. \E n : n.type \notin Requests /\ mailbox' = Append(mailbox, n)
    BY <1>2 DEF StartCustomer, StartRider, StartRestaurant,
       StartPaymentSystem, Restarted, Requests
  <2> QED BY <2>1, <2>2, FlyingSent
<1>3. ASSUME NEW a \in Customers, ChooseRestaurant(a)
      PROVE  Flying(types, c)
  <2>1. outbox'[Gateway] = outbox[Gateway]
    BY <1>1, <1>3 DEF ChooseRestaurant, Boxes
  <2>2. PICK n : n.customer = a /\ mailbox' = Append(mailbox, n)
    BY <1>3 DEF ChooseRestaurant
  <2>3. a # c
    BY <1>3
  <2> QED BY <2>1, <2>2, <2>3, FlyingSent
<1>4. CASE \E a \in Customers : FinishDelivery(a) \/ GetRestaurants(a)
  <2>1. outbox'[Gateway] = outbox[Gateway]
    BY <1>1, <1>4 DEF FinishDelivery, GetRestaurants, Boxes
  <2>2. \/ mailbox' = mailbox
        \/ \E n : n.type \notin Requests /\ mailbox' = Append(mailbox, n)
    BY <1>4 DEF FinishDelivery, GetRestaurants, Requests
  <2> QED BY <2>1, <2>2, FlyingSent
<1>5. CASE \/ \E r \in Riders : Rider(r)
           \/ \E x \in Restaurants : ContinueOrder(x)
  <2>1. outbox'[Gateway] = outbox[Gateway]
    BY <1>1, <1>5 DEF Rider, DeliveryOffer, DeliveryOfferConfirmed,
       GoToCustomerLocation, ContinueOrder, Boxes
  <2>2. CASE \E r \in Riders : Rider(r)
    <3>1. \/ mailbox' = mailbox
          \/ \E n : n.type \notin Requests /\ mailbox' = Append(mailbox, n)
      BY <2>2 DEF Rider, DeliveryOffer, DeliveryOfferConfirmed,
         GoToCustomerLocation, Requests
    <3> QED BY <2>1, <3>1, FlyingSent
  <2>3. CASE \E x \in Restaurants : ContinueOrder(x)
    <3>1. PICK n : /\ n.type \in {"OrderReady", "OrderCancelled"}
                   /\ mailbox' = Append(mailbox, n)
      BY <2>3 DEF ContinueOrder
    <3>2. n.type \notin Requests
      BY <3>1 DEF Requests
    <3> QED BY <2>1, <3>1, <3>2, FlyingSent
  <2> QED BY <1>5, <2>2, <2>3
<1>6. CASE UNCHANGED vars
  BY <1>6, FlyingSent DEF vars
<1> QED BY <1>2, <1>3, <1>4, <1>5, <1>6, FlyingHandle, FlyingPayment
    DEF Next, Customer

(* What a step adds to the log.                                            *)
LEMMA LogStep ==
    ASSUME TypeInv, [Next]_vars
    PROVE  LET m    == Head(mailbox)
               line == Head(outbox[Gateway])
           IN  \/ log' = log
               \/ /\ Handle /\ m.type \in {"AuthorizePayment", "PaymentDenied"}
                  /\ log' = log \cup {<<"refused", m.customer, m.price>>}
               \/ /\ ExecuteAutorization
                  /\ log' = log \cup {<<"authorized", line.customer, line.price>>}
               \/ /\ ExecutePayment
                  /\ log' = log \cup {<<"charged", line.customer, line.price>>}
               \/ \E x \in Restaurants : ContinueOrder(x)
<1> DEFINE m == Head(mailbox)
<1>1. CASE Handle
  <2>1. CASE m.type \notin {"AuthorizePayment", "PaymentDenied"}
    BY <1>1, <2>1, HandleQuiet
  <2>2. CASE m.type = "AuthorizePayment"
    BY <1>1, <2>2, HandleByType DEF AuthorizePayment, Note
  <2>3. CASE m.type = "PaymentDenied"
    BY <1>1, <2>3, HandleByType DEF PaymentDenied, Note
  <2> QED BY <2>1, <2>2, <2>3
<1>2. CASE PaymentSystem
  BY <1>2 DEF PaymentSystem, ExecuteAutorization, ExecutePayment, Note
<1>3. CASE \/ \E c \in Customers : StartCustomer(c) \/ Customer(c) \/ GetRestaurants(c)
           \/ \E r \in Riders : StartRider(r) \/ Rider(r)
           \/ \E x \in Restaurants : StartRestaurant(x)
           \/ StartPaymentSystem
  BY <1>3 DEF StartCustomer, StartRider, StartRestaurant, StartPaymentSystem,
     Restarted, Customer, ChooseRestaurant, FinishDelivery, GetRestaurants,
     Rider, DeliveryOffer, DeliveryOfferConfirmed, GoToCustomerLocation, history
<1>4. CASE UNCHANGED vars
  BY <1>4 DEF vars, history
<1> QED BY <1>1, <1>2, <1>3, <1>4 DEF Next

(* An order is in process from its request on.                             *)
LEMMA InProcessStep ==
    ASSUME TypeInv, [Next]_vars, NEW c \in Customers, InProcess(c, 1)'
    PROVE  \/ InProcess(c, 1)
           \/ /\ Handle /\ Head(mailbox).type = "OrderRequest"
              /\ Head(mailbox).customer = c
<1> DEFINE m == Head(mailbox)
<1>1. CASE \/ orders_in_process'[c] = None
           \/ orders_in_process'[c] = orders_in_process[c]
  BY <1>1 DEF InProcess
<1>2. CASE Handle
  <2>1. CASE m.type = "OrderRequest"
    BY <1>1, <1>2, <2>1, RequestEntered
  <2>2. CASE m.type = "DeliveryOfferAccepted"
    BY <1>1, <1>2, <2>2, OfferAccepted DEF InProcess
  <2>3. CASE m.type \notin {"OrderRequest", "DeliveryOfferAccepted"}
    BY <1>1, <1>2, <2>3, HandleQuiet
  <2> QED BY <2>1, <2>2, <2>3
<1>3. CASE Next /\ ~Handle
  BY <1>1, <1>3
     DEF Next, StartCustomer, StartRider, StartRestaurant, StartPaymentSystem,
         Restarted, Customer, ChooseRestaurant, FinishDelivery, GetRestaurants,
         Rider, DeliveryOffer, DeliveryOfferConfirmed, GoToCustomerLocation,
         ContinueOrder, PaymentSystem, ExecuteAutorization, ExecutePayment,
         managerVars, orderVars
<1>4. CASE UNCHANGED vars
  BY <1>1, <1>4 DEF vars, orderVars
<1> QED BY <1>2, <1>3, <1>4

(* Orders are only ever placed, by the customer.                           *)
LEMMA PlacedStep ==
    ASSUME TypeInv, [Next]_vars, NEW c \in Customers
    PROVE  /\ placed'[c] # placed[c] => ChooseRestaurant(c)
           /\ placed[c] \in Nat /\ placed'[c] \in Nat
           /\ placed[c] <= placed'[c]
<1>1. placed \in [Customers -> 0 .. MaxOrders] /\ MaxOrders \in Nat
  BY BoxTypes
<1>2. CASE placed' = placed
  BY <1>1, <1>2
<1>3. ASSUME NEW a \in Customers, ChooseRestaurant(a)
      PROVE  /\ placed'[c] # placed[c] => ChooseRestaurant(c)
             /\ placed[c] \in Nat /\ placed'[c] \in Nat
             /\ placed[c] <= placed'[c]
  <2>1. placed' = [placed EXCEPT ![a] = placed[a] + 1]
    BY <1>3 DEF ChooseRestaurant
  <2>2. placed[a] \in Nat /\ placed[c] \in Nat
    BY <1>1
  <2>3. CASE a = c
    BY <1>1, <1>3, <2>1, <2>2, <2>3
  <2>4. CASE a # c
    BY <1>1, <2>1, <2>2, <2>4
  <2> QED BY <2>3, <2>4
<1>4. CASE Handle \/ UNCHANGED vars
  BY <1>2, <1>4 DEF Handle, clientVars, vars
<1>5. CASE Next /\ ~Handle /\ ~\E a \in Customers : ChooseRestaurant(a)
  BY <1>2, <1>5
     DEF Next, StartCustomer, StartRider, StartRestaurant, StartPaymentSystem,
         Restarted, Customer, FinishDelivery, GetRestaurants,
         Rider, DeliveryOffer, DeliveryOfferConfirmed, GoToCustomerLocation,
         ContinueOrder, PaymentSystem, ExecuteAutorization, ExecutePayment,
         clientVars
<1> QED BY <1>3, <1>4, <1>5

(* The payment system takes an order that is asked for no more.            *)
LEMMA LineTaken ==
    ASSUME TypeInv, OnceInv, PaymentSystem
    PROVE  LET line == Head(outbox[Gateway])
           IN  /\ line \in Line /\ line.customer \in Customers
               /\ line.price \in Prices
               /\ line.type = "AuthorizePayment"
                    => /\ Sent(line.customer, line.price)
                       /\ ~Held(outbox'[Gateway], {"AuthorizePayment"},
                                line.customer, line.price)
               /\ line.type = "ExecutePayment" => Due(line.customer, line.price)
               /\ line.type = IF ExecuteAutorization THEN "AuthorizePayment"
                              ELSE "ExecutePayment"
<1> DEFINE line == Head(outbox[Gateway])
           lines == outbox[Gateway]
<1>1. lines \in Seq(Line) /\ lines # <<>> /\ line \in Line /\ line = Head(lines)
  <2>1. lines \in Seq(Line) /\ lines # <<>>
    BY BoxTypes DEF PaymentSystem, ExecuteAutorization, ExecutePayment, Taken
  <2> QED BY <2>1
<1>2. outbox'[Gateway] = Tail(lines)
  BY BoxTypes DEF PaymentSystem, ExecuteAutorization, ExecutePayment, Boxes
<1>3. line.type = IF ExecuteAutorization THEN "AuthorizePayment"
                  ELSE "ExecutePayment"
  BY DEF PaymentSystem, ExecuteAutorization, ExecutePayment, Taken
<1>4. Distinct(lines, {"AuthorizePayment"})
  BY DEF OnceInv
<1> HIDE DEF line, lines
<1>5. line.customer \in Customers /\ line.price \in Prices
  <2>1. line.type \in {"AuthorizePayment", "ExecutePayment"}
    BY <1>3
  <2> QED BY <1>1, <2>1, LineFields
<1>6. line.type = "AuthorizePayment"
        => /\ Held(lines, {"AuthorizePayment"}, line.customer, line.price)
           /\ ~Held(Tail(lines), {"AuthorizePayment"}, line.customer, line.price)
  BY <1>1, <1>4, HeldTail
<1>7. line.type = "ExecutePayment"
        => Held(lines, {"ExecutePayment"}, line.customer, line.price)
  BY <1>1, HeldTail
<1>8. line.type = "AuthorizePayment"
        => /\ Sent(line.customer, line.price)
           /\ ~Held(outbox'[Gateway], {"AuthorizePayment"}, line.customer,
                    line.price)
  BY <1>2, <1>6 DEF Sent, lines
<1>9. line.type = "ExecutePayment" => Due(line.customer, line.price)
  BY <1>7 DEF Due, lines
<1> QED BY <1>1, <1>3, <1>5, <1>8, <1>9 DEF line

(* The payment of an order is asked for before it is authorized.           *)
LEMMA PaymentStep ==
    ASSUME MaxOrders = 1, TypeInv, OnceInv, [Next]_vars,
           NEW c \in Customers, Payment(c)
    PROVE  Payment(c)'
<1> DEFINE m == Head(mailbox)
           line == Head(outbox[Gateway])
           early == {"AuthorizePayment", "PaymentDenied"}
<1>1. /\ Prices = {1} /\ 1 \in Prices /\ Ledger(c, 1)
      /\ \A p \in Prices : p = 1
  BY OnePrice DEF OnceInv
<1>2. /\ early \in FlyingTypes /\ early \subseteq Requests
      /\ Payment(c) <=> /\ Logged("authorized", c) =>
                             placed[c] > 0 /\ ~Logged("refused", c)
                        /\ Flying(early, c) => ~Logged("authorized", c)
  BY DEF FlyingTypes, Payment, Flying, Requests
<1>3. Payment(c)' <=> /\ Logged("authorized", c)' =>
                             placed'[c] > 0 /\ ~Logged("refused", c)'
                      /\ Flying(early, c)' => ~Logged("authorized", c)'
  BY DEF Payment, Flying
<1>4. /\ placed'[c] # placed[c] => ChooseRestaurant(c)
      /\ placed[c] \in Nat /\ placed'[c] \in Nat /\ placed[c] <= placed'[c]
  BY PlacedStep
<1>5. ~ChooseRestaurant(c) /\ Flying(early, c)' => Flying(early, c)
  BY <1>2, FlyingStep
<1> HIDE DEF early
<1>6. CASE ChooseRestaurant(c)
  <2>1. log' = log /\ placed[c] < 1
    BY <1>6 DEF ChooseRestaurant, history
  <2>2. ~Logged("authorized", c)'
    BY <1>2, <1>4, <2>1 DEF Logged
  <2> QED BY <1>3, <2>2
<1>7. CASE /\ ~ChooseRestaurant(c)
           /\ Logged("authorized", c)' <=> Logged("authorized", c)
           /\ Logged("refused", c)' => Logged("refused", c)
  BY <1>2, <1>3, <1>4, <1>5, <1>7
<1>8. CASE log' = log
  BY <1>6, <1>7, <1>8 DEF Logged
<1>9. CASE /\ Handle /\ m.type \in {"AuthorizePayment", "PaymentDenied"}
           /\ log' = log \cup {<<"refused", m.customer, m.price>>}
  <2>1. mailbox # <<>> /\ mailbox \in Seq(Message)
    BY <1>9, BoxTypes DEF Handle
  <2>2. m \in Message /\ m.type \in early /\ m.type \in Requests
    BY <1>2, <1>9, <2>1 DEF early
  <2>3. m.price = 1 /\ Held(mailbox, early, m.customer, m.price)
    BY <1>1, <2>1, <2>2, HeldTail, RequestFields
  <2>4. m.customer = c => Flying(early, c)
    BY <2>3 DEF Flying
  <2>5. Logged("authorized", c)' <=> Logged("authorized", c)
    BY <1>9 DEF Logged
  <2>6. Logged("refused", c)' <=> Logged("refused", c) \/ m.customer = c
    BY <1>9, <2>3 DEF Logged
  <2>7. placed' = placed
    BY <1>9 DEF Handle, clientVars
  <2> QED BY <1>2, <1>3, <1>5, <1>6, <2>4, <2>5, <2>6, <2>7
<1>10. CASE /\ ExecuteAutorization /\ log' # log
            /\ log' = log \cup {<<"authorized", line.customer, line.price>>}
  <2>1. PaymentSystem
    BY <1>10 DEF PaymentSystem
  <2>2. /\ line.price = 1 /\ Sent(line.customer, line.price)
        /\ ~Held(outbox'[Gateway], {"AuthorizePayment"}, line.customer,
                 line.price)
    BY <1>1, <1>10, <2>1, LineTaken
  <2>3. CASE line.customer # c
    <3>1. /\ Logged("authorized", c)' <=> Logged("authorized", c)
          /\ Logged("refused", c)' <=> Logged("refused", c)
      BY <1>10, <2>3 DEF Logged
    <3> QED BY <1>6, <1>7, <3>1
  <2>4. CASE line.customer = c
    <3>1. Sent(c, 1) /\ ~Sent(c, 1)'
      BY <2>2, <2>4 DEF Sent
    <3>2. /\ ~Pending(c, 1) /\ ~Settled(c, 1) /\ placed[c] > 0
      BY <1>1, <1>4, <3>1 DEF Ledger
    <3>3. ~Logged("refused", c)'
      BY <1>10, <3>2 DEF Logged, Settled
    <3>4. placed' = placed
      BY <1>10 DEF ExecuteAutorization, clientVars
    <3>5. ~Held(mailbox', early, c, 1)
      <4>1. ~Held(mailbox, early, c, 1)
        BY <1>2, <3>2 DEF Pending, Held
      <4>2. line \in Line /\ line.type = "AuthorizePayment"
        BY <1>10, <2>1, LineTaken
      <4>3. mailbox' = Append(mailbox, [line EXCEPT !.type = "PaymentAuthorized"])
        BY <1>10 DEF ExecuteAutorization
      <4> DEFINE n == [line EXCEPT !.type = "PaymentAuthorized"]
      <4> HIDE DEF line
      <4>4. n.type = "PaymentAuthorized"
        BY <4>2, LineFields
      <4> HIDE DEF n
      <4>5. mailbox' = Append(mailbox, n) /\ mailbox \in Seq(Message)
        BY <4>3, BoxTypes DEF n
      <4> QED BY <4>1, <4>4, <4>5, HeldAppend DEF early
    <3> QED BY <1>3, <3>1, <3>2, <3>3, <3>4, <3>5 DEF Flying
  <2> QED BY <2>3, <2>4
<1>11. CASE /\ ExecutePayment
            /\ log' = log \cup {<<"charged", line.customer, line.price>>}
  <2>1. /\ Logged("authorized", c)' <=> Logged("authorized", c)
        /\ Logged("refused", c)' <=> Logged("refused", c)
    BY <1>11 DEF Logged
  <2> QED BY <1>6, <1>7, <2>1
<1>12. CASE \E x \in Restaurants : ContinueOrder(x)
  <2>1. /\ Logged("authorized", c)' <=> Logged("authorized", c)
        /\ Logged("refused", c)' <=> Logged("refused", c)
    <3>1. PICK e \in {"ready", "cancelled"} :
             \E a, p : log' = log \cup {<<e, a, p>>}
      BY <1>12 DEF ContinueOrder, Note
    <3> QED BY <3>1 DEF Logged
  <2> QED BY <1>6, <1>7, <2>1
<1> QED BY <1>8, <1>9, <1>10, <1>11, <1>12, LogStep

----------------------------------------------------------------------------
(* The order at the restaurant.                                            *)

Mail == {mailbox[i] : i \in 1 .. Len(mailbox)}

(* The answer of a restaurant stays ahead while others are sent, and while *)
(* other messages are taken.                                               *)
LEMMA AheadSent ==
    ASSUME TypeInv, NEW c, NEW type, Ahead(type, c),
           mailbox' = mailbox \/ \E n : mailbox' = Append(mailbox, n),
           \A n \in Mail : Resends(n, c)' => Resends(n, c)
    PROVE  Ahead(type, c)'
<1>1. PICK i \in 1 .. Len(mailbox) :
          /\ mailbox[i].type = type /\ mailbox[i].customer = c
          /\ \A j \in 1 .. i : ~Resends(mailbox[j], c)
  BY DEF Ahead
<1>2. /\ Len(mailbox) \in Nat
      /\ \A j \in 1 .. Len(mailbox) :
            j \in 1 .. Len(mailbox') /\ mailbox'[j] = mailbox[j]
  BY BoxTypes, ItemsSent
<1>3. ASSUME NEW j \in 1 .. i PROVE ~Resends(mailbox[j], c)'
  <2>1. j \in 1 .. Len(mailbox) /\ mailbox[j] \in Mail
    BY <1>2 DEF Mail
  <2>2. /\ mailbox'[j] = mailbox[j] /\ ~Resends(mailbox[j], c)
    BY <1>1, <1>2, <2>1
  <2>3. PICK n \in Mail : n = mailbox[j]
    BY <2>1
  <2>4. ~Resends(n, c)'
    BY <2>2, <2>3
  <2>5. n = mailbox'[j]
    BY <2>2, <2>3
  <2> QED BY <2>4, <2>5 DEF Resends, Current
<1> QED BY <1>1, <1>2, <1>3 DEF Ahead

(* A restaurant's answer stays ahead when the manager takes another        *)
(* message.                                                                *)
LEMMA AheadTaken ==
    ASSUME TypeInv, Handle, NEW c, NEW type, Ahead(type, c),
           ~(Head(mailbox).type = type /\ Head(mailbox).customer = c),
           \A n \in Mail : Resends(n, c)' => Resends(n, c)
    PROVE  Ahead(type, c)'
<1>1. PICK i \in 1 .. Len(mailbox) :
          /\ mailbox[i].type = type /\ mailbox[i].customer = c
          /\ \A j \in 1 .. i : ~Resends(mailbox[j], c)
  BY DEF Ahead
<1>2. i \in 2 .. Len(mailbox) /\ Len(mailbox) \in Nat
  BY <1>1, ItemsTaken
<1>3. i - 1 \in 1 .. Len(mailbox') /\ mailbox'[i - 1] = mailbox[i]
  BY <1>2, ItemsTaken
<1>4. ASSUME NEW j \in 1 .. i - 1 PROVE ~Resends(mailbox[j], c)'
  <2>1. j + 1 \in 2 .. Len(mailbox) /\ j + 1 \in 1 .. i /\ (j + 1) - 1 = j
    BY <1>2
  <2>2. mailbox'[j] = mailbox[j + 1]
    BY <2>1, ItemsTaken
  <2>3. mailbox[j + 1] \in Mail /\ ~Resends(mailbox[j + 1], c)
    BY <1>1, <1>2, <2>1 DEF Mail
  <2>4. PICK n \in Mail : n = mailbox[j + 1]
    BY <2>3
  <2>5. ~Resends(n, c)' /\ n = mailbox'[j]
    BY <2>2, <2>3, <2>4
  <2> QED BY <2>5 DEF Resends, Current
<1> QED BY <1>1, <1>3, <1>4 DEF Ahead

(* No message makes a restaurant cook again that starts after it was sent. *)
LEMMA ResendsKept ==
    ASSUME TypeInv, Registering, [Next]_vars, NEW c,
           \A x \in Restaurants :
              Mine(c) \in pending_orders'[x] => Mine(c) \in pending_orders[x]
    PROVE  \A n \in Mail : Resends(n, c)' => Resends(n, c)
<1> SUFFICES ASSUME NEW n \in Mail, Resends(n, c)' PROVE Resends(n, c)
  OBVIOUS
<1>1. n \in Message
  BY BoxTypes DEF Mail
<1>2. /\ n.type = "RegisterRestaurant" /\ n.session = session'[n.restaurant]
      /\ Mine(c) \in pending_orders'[n.restaurant]
  BY DEF Resends, Current, Mine
<1>3. /\ n.restaurant \in Restaurants /\ n.session \in Nat
      /\ n.session <= session[n.restaurant]
      /\ n.restaurant \in Clients /\ session \in [Clients -> Nat]
  BY <1>1, <1>2, RegistrationFields
     DEF Registering, Mail, Clients, TypeInv, TypeOK
<1>4. session'[n.restaurant] \in {session[n.restaurant],
                                  session[n.restaurant] + 1}
  <2>1. CASE session' = session
    BY <2>1
  <2>2. CASE \E cl \in Clients : session' = [session EXCEPT ![cl] = @ + 1]
    BY <1>3, <2>2
  <2>3. CASE Handle \/ UNCHANGED vars
    BY <2>1, <2>3 DEF Handle, clientVars, vars
  <2>4. CASE \/ \E a \in Customers : StartCustomer(a)
             \/ \E r \in Riders : StartRider(r)
             \/ \E x \in Restaurants : StartRestaurant(x)
             \/ StartPaymentSystem
    BY <2>2, <2>4 DEF StartCustomer, StartRider, StartRestaurant,
       StartPaymentSystem, Restarted, Clients
  <2>5. CASE \/ \E a \in Customers : Customer(a) \/ GetRestaurants(a)
             \/ \E r \in Riders : Rider(r)
             \/ \E x \in Restaurants : ContinueOrder(x)
             \/ PaymentSystem
    BY <2>1, <2>5 DEF Customer, ChooseRestaurant, FinishDelivery,
         GetRestaurants, Rider, DeliveryOffer, DeliveryOfferConfirmed,
         GoToCustomerLocation, ContinueOrder, PaymentSystem,
         ExecuteAutorization, ExecutePayment, clientVars
  <2> QED BY <2>3, <2>4, <2>5 DEF Next
<1>5. session[n.restaurant] \in Nat
  BY <1>3
<1>6. n.session = session[n.restaurant]
  BY <1>2, <1>3, <1>4, <1>5
<1> QED BY <1>2, <1>3, <1>6 DEF Resends, Current

(* Steps that add nothing to an order at its restaurant.                   *)
LEMMA KitchenKept ==
    ASSUME NEW c \in Customers, Kitchen(c), Asked(c)' => Asked(c),
           log \subseteq log',
           Logged("ready", c)' => Logged("ready", c),
           Logged("cancelled", c)' => Logged("cancelled", c),
           \A x \in Restaurants :
              /\ Mine(c) \in cooking'[x] => Mine(c) \in cooking[x]
              /\ Mine(c) \in pending_orders'[x] =>
                    /\ Mine(c) \in pending_orders[x]
                    /\ Ahead("OrderReady", c) => Ahead("OrderReady", c)',
           InProcess(c, 1)' /\ Logged("cancelled", c) =>
              /\ InProcess(c, 1)
              /\ Ahead("OrderCancelled", c) => Ahead("OrderCancelled", c)'
    PROVE  Kitchen(c)'
<1>1. \A x \in Restaurants : At(c, x)' => At(c, x)
  BY DEF At, Mine
<1>2. /\ Logged("ready", c) <=> Logged("ready", c)'
      /\ Logged("cancelled", c) <=> Logged("cancelled", c)'
      /\ Logged("authorized", c) => Logged("authorized", c)'
  BY DEF Logged
<1>3. Mine(c) = Mine(c)'
  BY DEF Mine
<1>4. Asked(c)' => /\ ~Logged("ready", c)' /\ ~Logged("cancelled", c)'
                   /\ \A x \in Restaurants : ~At(c, x)'
  BY <1>1, <1>2 DEF Kitchen
<1>5. \A x, y \in Restaurants : At(c, x)' /\ At(c, y)' => x = y
  BY <1>1 DEF Kitchen
<1>6. \/ Logged("ready", c)' \/ Logged("cancelled", c)'
      \/ \E x \in Restaurants : At(c, x)'
      => Logged("authorized", c)'
  BY <1>1, <1>2 DEF Kitchen
<1>7. \A x \in Restaurants :
          /\ Mine(c) \in cooking'[x] /\ Logged("ready", c)'
               => Logged("cancelled", c)'
          /\ Mine(c) \in pending_orders'[x] /\ Logged("ready", c)'
               => Logged("cancelled", c)' \/ Ahead("OrderReady", c)'
  BY <1>2 DEF Kitchen
<1>8. InProcess(c, 1)' /\ Logged("cancelled", c)' =>
          /\ ~Logged("ready", c)' /\ Ahead("OrderCancelled", c)'
          /\ \A x \in Restaurants : Mine(c) \notin cooking'[x]
  BY <1>2 DEF Kitchen
<1> QED BY <1>3, <1>4, <1>5, <1>6, <1>7, <1>8 DEF Kitchen

(* A handler logs nothing but the refusal of a payment.                    *)
LEMMA HandleLogs ==
    ASSUME TypeInv, Handle, NEW c
    PROVE  /\ Logged("authorized", c)' <=> Logged("authorized", c)
           /\ Logged("ready", c)' <=> Logged("ready", c)
           /\ Logged("cancelled", c)' <=> Logged("cancelled", c)
           /\ log \subseteq log'
<1> DEFINE m == Head(mailbox)
<1>1. CASE log' = log
  BY <1>1 DEF Logged
<1>2. CASE \E a, p : log' = log \cup {<<"refused", a, p>>}
  BY <1>2 DEF Logged
<1>3. CASE m.type = "AuthorizePayment"
  BY <1>1, <1>2, <1>3, HandleByType DEF AuthorizePayment, Note
<1>4. CASE m.type = "PaymentDenied"
  BY <1>2, <1>4, HandleByType DEF PaymentDenied, Note
<1>5. CASE m.type \notin {"AuthorizePayment", "PaymentDenied"}
  BY <1>1, <1>5, HandleQuiet
<1> QED BY <1>3, <1>4, <1>5

(* A handler whose message is not of the order.                            *)
LEMMA KitchenAside ==
    ASSUME TypeInv, Registering, Handle, NEW c \in Customers, Kitchen(c),
           \A x \in Restaurants :
              /\ Mine(c) \in cooking'[x] => Mine(c) \in cooking[x]
              /\ Mine(c) \in pending_orders'[x] => Mine(c) \in pending_orders[x],
           Head(mailbox).type \in {"OrderReady", "OrderCancelled", "OrderRequest"}
               => Head(mailbox).customer # c
    PROVE  Kitchen(c)'
<1>1. [Next]_vars
  BY DEF Next
<1>2. Asked(c)' => Asked(c)
  <2>1. Requests \in FlyingTypes
    BY DEF FlyingTypes
  <2>2. Flying(Requests, c)' => Flying(Requests, c)
    BY <2>1, FlyingHandle
  <2> QED BY <2>2 DEF Flying, Asked, Pending
<1>3. \A n \in Mail : Resends(n, c)' => Resends(n, c)
  BY <1>1, ResendsKept
<1>4. /\ Ahead("OrderReady", c) => Ahead("OrderReady", c)'
      /\ Ahead("OrderCancelled", c) => Ahead("OrderCancelled", c)'
  BY <1>3, AheadTaken
<1>5. InProcess(c, 1)' => InProcess(c, 1)
  BY <1>1, InProcessStep
<1> QED BY <1>2, <1>4, <1>5, HandleLogs, KitchenKept

(* OrderRequest: the restaurant gets an order that it did not have.        *)
LEMMA KitchenRequest ==
    ASSUME MaxOrders = 1, TypeInv, AuthInv, OnceInv, Handle,
           NEW c \in Customers, Kitchen(c),
           Head(mailbox).type = "OrderRequest", Head(mailbox).customer = c
    PROVE  Kitchen(c)'
<1> DEFINE m == Head(mailbox)
<1>1. /\ mailbox # <<>> /\ mailbox \in Seq(Message) /\ m \in Message
      /\ OrderRequest(m) /\ mailbox' = Tail(mailbox)
  <2>1. mailbox # <<>> /\ mailbox \in Seq(Message)
    BY BoxTypes DEF Handle
  <2> QED BY <2>1, HandleByType
<1>2. m.type \in Requests /\ m.price = 1 /\ m.restaurant \in Restaurants
  <2>1. m.type \in Requests
    BY DEF Requests
  <2> QED BY <1>1, <2>1, MessageFields, OnePrice
<1>3. Pending(c, 1) /\ ~Held(Tail(mailbox), Requests, c, 1)
  BY <1>1, <1>2, RequestTaken
<1>4. /\ ~Sent(c, 1)
      /\ ~Logged("ready", c) /\ ~Logged("cancelled", c)
      /\ \A x \in Restaurants : ~At(c, x)
  BY <1>3, OnePrice DEF OnceInv, Ledger, Kitchen, Asked
<1>5. ~Asked(c)'
  <2>1. outbox'[Gateway] = outbox[Gateway]
    BY HandleLines
  <2> QED BY <1>1, <1>3, <1>4, <2>1 DEF Asked, Pending, Sent
<1>6. Logged("authorized", c)
  <2>1. m = mailbox[1] /\ 1 \in 1 .. Len(mailbox)
    BY ItemsTaken
  <2>2. <<"authorized", m.customer, m.price>> \in log
    BY <2>1 DEF AuthInv, AuthMail
  <2> QED BY <1>2, <2>2 DEF Logged
<1>7. \A x \in Restaurants \ {m.restaurant} :
          Mine(c) \notin cooking'[x] \cup pending_orders'[x]
  <2>1. /\ cooking \in [Restaurants -> SUBSET Orders]
        /\ pending_orders \in [Restaurants -> SUBSET Orders]
    BY DEF TypeInv, TypeOK
  <2>2. \A x \in Restaurants \ {m.restaurant} :
            cooking'[x] = cooking[x] /\ pending_orders'[x] = pending_orders[x]
    <3>1. \/ cooking' = cooking
          \/ \E os : Prepare(m.restaurant,
                             restaurant_connections[m.restaurant], os)
      BY <1>1 DEF OrderRequest
    <3>2. \/ pending_orders' = pending_orders
          \/ \E os : pending_orders' =
                [pending_orders EXCEPT ![m.restaurant] = @ \cup os]
      BY <1>1 DEF OrderRequest, orderVars
    <3> HIDE DEF m
    <3> QED BY <2>1, <3>1, <3>2 DEF Prepare
  <2> QED BY <1>4, <2>2 DEF At
<1>8. Mine(c)' = Mine(c)
  BY DEF Mine
<1>9. \A x \in Restaurants : At(c, x)' => x = m.restaurant
  BY <1>7, <1>8 DEF At
<1> HIDE DEF m
<1>10. \A x, y \in Restaurants : At(c, x)' /\ At(c, y)' => x = y
  BY <1>9
<1>11. /\ Logged("authorized", c)'
       /\ ~Logged("ready", c)' /\ ~Logged("cancelled", c)'
  BY <1>4, <1>6, HandleLogs
<1> QED BY <1>5, <1>10, <1>11 DEF Kitchen

(* A restaurant registers and is sent its orders: only those that it has   *)
(* not answered, or has cancelled before.                                  *)
LEMMA KitchenRegister ==
    ASSUME TypeInv, Registering, Handle, NEW c \in Customers, Kitchen(c),
           Head(mailbox).type = "RegisterRestaurant"
    PROVE  Kitchen(c)'
<1> DEFINE m == Head(mailbox)
           y == m.restaurant
<1>1. /\ mailbox # <<>> /\ mailbox \in Seq(Message) /\ m \in Message
      /\ m = mailbox[1] /\ Len(mailbox) \in Nat \ {0}
      /\ HandleRegisterRestaurant(m) /\ pending_orders' = pending_orders
  <2>1. mailbox # <<>> /\ mailbox \in Seq(Message)
    BY BoxTypes DEF Handle
  <2> QED BY <2>1, KitchenFrame, ItemsTaken
<1>2. y \in Restaurants
  BY <1>1, RegistrationFields
<1>3. \A x \in Restaurants :
          \/ cooking'[x] = cooking[x]
          \/ /\ x = y /\ Current(m)
             /\ cooking'[x] = cooking[x] \cup pending_orders[x]
  <2>1. Prepare(y, m.session, pending_orders[y])
    BY <1>1 DEF HandleRegisterRestaurant
  <2>2. cooking \in [Restaurants -> SUBSET Orders]
    BY DEF TypeInv, TypeOK
  <2>3. m.session = session[y] => Current(m)
    BY DEF Current
  <2> HIDE DEF m, y
  <2> QED BY <2>1, <2>2, <2>3 DEF Prepare
<1>4. CASE ~Resends(m, c)
  <2>1. \A x \in Restaurants :
            /\ Mine(c) \in cooking'[x] => Mine(c) \in cooking[x]
            /\ Mine(c) \in pending_orders'[x] => Mine(c) \in pending_orders[x]
    BY <1>1, <1>3, <1>4 DEF Resends
  <2> QED BY <2>1, KitchenAside
<1>5. CASE Resends(m, c)
  <2>1. At(c, y)
    BY <1>2, <1>5 DEF Resends, At
  <2>2. \A type : ~Ahead(type, c)
    BY <1>1, <1>5 DEF Ahead
  <2>3. ~Asked(c)'
    <3>1. Requests \in FlyingTypes
      BY DEF FlyingTypes
    <3>2. Flying(Requests, c)' => Flying(Requests, c)
      BY <3>1, FlyingHandle
    <3>3. Asked(c)' => Asked(c)
      BY <3>2 DEF Flying, Asked, Pending
    <3> QED BY <1>2, <2>1, <3>3 DEF Kitchen
  <2>4. Mine(c)' = Mine(c)
    BY DEF Mine
  <2>5. \A x \in Restaurants : At(c, x)' => At(c, x)
    BY <1>1, <1>3, <2>4 DEF At
  <2>6. \A x, z \in Restaurants : At(c, x)' /\ At(c, z)' => x = z
    BY <2>5 DEF Kitchen
  <2>7. Logged("authorized", c)'
    BY <1>2, <2>1, HandleLogs DEF Kitchen
  <2>8. \A x \in Restaurants : At(c, x) /\ Logged("ready", c)
            => Logged("cancelled", c)
    BY <2>2 DEF Kitchen, At
  <2>9. \A x \in Restaurants : At(c, x)' /\ Logged("ready", c)'
            => Logged("cancelled", c)'
    BY <2>5, <2>8, HandleLogs
  <2>10. InProcess(c, 1)' => InProcess(c, 1)
    BY InProcessStep DEF Next
  <2>11. ~(InProcess(c, 1)' /\ Logged("cancelled", c)')
    BY <2>2, <2>10, HandleLogs DEF Kitchen
  <2> QED BY <2>3, <2>6, <2>7, <2>9, <2>11 DEF Kitchen, At
<1> QED BY <1>4, <1>5

(* The restaurant's answer for the order is taken: the customer is known,  *)
(* so that the answer is not ignored.                                      *)
LEMMA KitchenAnswered ==
    ASSUME TypeInv, Connected, Offered, Registering, Handle,
           NEW c \in Customers, Payment(c), Kitchen(c),
           Head(mailbox).type \in {"OrderReady", "OrderCancelled"},
           Head(mailbox).customer = c
    PROVE  Kitchen(c)'
<1> DEFINE m == Head(mailbox)
<1>1. /\ mailbox # <<>> /\ m = mailbox[1] /\ 1 \in 1 .. Len(mailbox)
  BY ItemsTaken DEF Handle
<1>2. Asked(c)' => Asked(c)
  <2>1. Requests \in FlyingTypes
    BY DEF FlyingTypes
  <2>2. Flying(Requests, c)' => Flying(Requests, c)
    BY <2>1, FlyingHandle
  <2> QED BY <2>2 DEF Flying, Asked, Pending
<1>3. Logged("ready", c) \/ Logged("cancelled", c)
        => customer_connections[c] # 0
  BY DEF Kitchen, Payment, Connected
<1>4. CASE m.type = "OrderReady"
  <2>1. Logged("ready", c)
    BY <1>1, <1>4 DEF Offered, AllBacked, Backed, Logged
  <2>2. /\ cooking' = cooking
        /\ pending_orders' = [x \in Restaurants |->
              {o \in pending_orders[x] : o.customer # m.customer}]
    BY <1>3, <1>4, <2>1, KitchenFrame DEF OrderReady
  <2>3. Mine(c).customer = c
    BY DEF Mine
  <2>4. \A x \in Restaurants :
            /\ Mine(c) \in cooking'[x] => Mine(c) \in cooking[x]
            /\ Mine(c) \notin pending_orders'[x]
    BY <2>2, <2>3
  <2>5. InProcess(c, 1)' => InProcess(c, 1)
    BY <1>4, InProcessStep DEF Next
  <2>6. ~(InProcess(c, 1)' /\ Logged("cancelled", c))
    BY <2>1, <2>5 DEF Kitchen
  <2> QED BY <1>2, <2>4, <2>6, HandleLogs, KitchenKept
<1>5. CASE m.type = "OrderCancelled"
  <2>1. cooking' = cooking /\ pending_orders' = pending_orders
    BY <1>5, KitchenFrame
  <2>2. \A n \in Mail : Resends(n, c)' => Resends(n, c)
    BY <2>1, ResendsKept DEF Next
  <2>3. Ahead("OrderReady", c) => Ahead("OrderReady", c)'
    BY <1>5, <2>2, AheadTaken
  <2>4. ~(InProcess(c, 1)' /\ Logged("cancelled", c))
    <3>1. OrderCancelled(m)
      BY <1>5 DEF Handle, HandleRegisterCustomer, HandleRegisterRider,
         HandleRegisterRestaurant, HandleRegisterPaymentSystem,
         SendRestaurantList, AuthorizePayment, PaymentAuthorized,
         PaymentDenied, OrderRequest, OrderReady, OrderCancelled, FindRider,
         DeliveryOfferAccepted, DeliveryDone, PaymentExecuted
    <3>2. Logged("cancelled", c) => orders_in_process'[c] = None
      <4>1. CASE Logged("cancelled", c)
        <5>1. orders_in_process' = [orders_in_process EXCEPT ![c] = None]
          BY <1>3, <3>1, <4>1 DEF OrderCancelled
        <5> QED BY <5>1, BoxTypes
      <4> QED BY <4>1
    <3> QED BY <3>2 DEF InProcess
  <2> QED BY <1>2, <2>1, <2>3, <2>4, HandleLogs, KitchenKept
<1> QED BY <1>4, <1>5

(* The handlers keep an order at its restaurant as it should be.           *)
LEMMA KitchenHandle ==
    ASSUME MaxOrders = 1, TypeInv, AuthInv, OnceInv, Connected, Offered,
           Registering, Handle, NEW c \in Customers, Payment(c), Kitchen(c)
    PROVE  Kitchen(c)'
<1> DEFINE m == Head(mailbox)
<1>1. CASE m.type = "RegisterRestaurant"
  BY <1>1, KitchenRegister
<1>2. CASE m.type = "OrderRequest" /\ m.customer = c
  BY <1>2, KitchenRequest
<1>3. CASE m.type \in {"OrderReady", "OrderCancelled"} /\ m.customer = c
  BY <1>3, KitchenAnswered
<1>4. CASE m.type = "OrderRequest" /\ m.customer # c
  <2>1. OrderRequest(m)
    BY <1>4, HandleByType
  <2> DEFINE os == {[customer |-> m.customer, price |-> m.price]}
  <2>2. Mine(c) \notin os
    BY <1>4 DEF Mine
  <2>3. /\ cooking \in [Restaurants -> SUBSET Orders]
        /\ pending_orders \in [Restaurants -> SUBSET Orders]
    BY DEF TypeInv, TypeOK
  <2>4. \/ cooking' = cooking
        \/ Prepare(m.restaurant, restaurant_connections[m.restaurant], os)
    BY <2>1 DEF OrderRequest
  <2>5. \/ pending_orders' = pending_orders
        \/ pending_orders' = [pending_orders EXCEPT ![m.restaurant] = @ \cup os]
    BY <2>1 DEF OrderRequest, orderVars
  <2> HIDE DEF os, m
  <2>6. \A x \in Restaurants :
            /\ Mine(c) \in cooking'[x] => Mine(c) \in cooking[x]
            /\ Mine(c) \in pending_orders'[x] => Mine(c) \in pending_orders[x]
    BY <2>2, <2>3, <2>4, <2>5 DEF Prepare
  <2> QED BY <1>4, <2>6, KitchenAside DEF m
<1>5. CASE /\ m.type \notin {"RegisterRestaurant", "OrderRequest"}
           /\ m.type \in {"OrderReady", "OrderCancelled"} => m.customer # c
  <2>1. cooking' = cooking
    BY <1>5, KitchenFrame
  <2>2. \A x \in Restaurants :
            Mine(c) \in pending_orders'[x] => Mine(c) \in pending_orders[x]
    <3>1. CASE m.type = "OrderReady"
      <4>1. \/ pending_orders' = pending_orders
            \/ pending_orders' = [x \in Restaurants |->
                  {o \in pending_orders[x] : o.customer # m.customer}]
        BY <3>1, KitchenFrame DEF OrderReady
      <4> QED BY <4>1
    <3>2. CASE m.type # "OrderReady"
      BY <1>5, <3>2, KitchenFrame
    <3> QED BY <3>1, <3>2
  <2> QED BY <1>5, <2>1, <2>2, KitchenAside
<1> QED BY <1>1, <1>2, <1>3, <1>4, <1>5

(* A restaurant answers for the order that it cooks: it has no other       *)
(* message that would make it cook the order again.                        *)
LEMMA KitchenCooked ==
    ASSUME MaxOrders = 1, TypeInv, Registering, NEW x \in Restaurants,
           ContinueOrder(x), NEW c \in Customers, Kitchen(c)
    PROVE  Kitchen(c)'
<1>1. PICK o \in cooking[x], answer \in {"OrderReady", "OrderCancelled"} :
          /\ cooking' = [cooking EXCEPT ![x] = @ \ {o}]
          /\ mailbox' = Append(mailbox, [type |-> answer,
                                         customer |-> o.customer])
          /\ Note(IF answer = "OrderReady" THEN "ready" ELSE "cancelled",
                  o.customer, o.price)
          /\ UNCHANGED <<managerVars, outbox, clientVars, assigned>>
  BY DEF ContinueOrder
<1>2. /\ cooking \in [Restaurants -> SUBSET Orders]
      /\ o \in Orders /\ o = Mine(o.customer) /\ o.price = 1
      /\ o.customer = c => o = Mine(c)
  <2>1. cooking \in [Restaurants -> SUBSET Orders]
    BY DEF TypeInv, TypeOK
  <2>2. o \in Orders
    BY <2>1
  <2>3. o = Mine(o.customer) /\ o.price = 1
    BY <2>2, OnePrice DEF Mine
  <2> QED BY <2>1, <2>2, <2>3
<1>3. /\ pending_orders' = pending_orders /\ orders_in_process' = orders_in_process
      /\ outbox' = outbox /\ session' = session /\ log \subseteq log'
      /\ \A z \in Restaurants : cooking'[z] \subseteq cooking[z]
      /\ o \notin cooking'[x]
  BY <1>1, <1>2 DEF managerVars, orderVars, clientVars, Note
<1>4. Asked(c)' => Asked(c)
  <2>1. Requests \in FlyingTypes
    BY DEF FlyingTypes
  <2>2. answer \notin Requests
    BY DEF Requests
  <2> DEFINE n == [type |-> answer, customer |-> o.customer]
  <2>3. n.type \notin Requests /\ mailbox' = Append(mailbox, n)
    BY <1>1, <2>2
  <2> HIDE DEF n
  <2>4. Flying(Requests, c)' => Flying(Requests, c)
    BY <1>3, <2>1, <2>3, FlyingSent
  <2> QED BY <2>4 DEF Flying, Asked, Pending
<1>5. /\ InProcess(c, 1)' <=> InProcess(c, 1)
      /\ Mine(c)' = Mine(c)
      /\ \A z \in Restaurants : At(c, z)' => At(c, z)
  BY <1>3 DEF InProcess, At, Mine
<1>6. Next
  BY DEF Next
<1>7. CASE o.customer # c
  <2>1. /\ Logged("ready", c)' <=> Logged("ready", c)
        /\ Logged("cancelled", c)' <=> Logged("cancelled", c)
    BY <1>1, <1>7 DEF Note, Logged
  <2>2. \A n \in Mail : Resends(n, c)' => Resends(n, c)
    BY <1>3, <1>6, ResendsKept
  <2>3. \A type : Ahead(type, c) => Ahead(type, c)'
    BY <1>1, <2>2, AheadSent
  <2> QED BY <1>3, <1>4, <1>5, <2>1, <2>3, KitchenKept
<1>8. CASE o.customer = c
  <2>1. Mine(c) \in cooking[x] /\ At(c, x)
    BY <1>2, <1>8 DEF At
  <2>2. /\ ~Asked(c) /\ Logged("authorized", c)
        /\ \A z \in Restaurants : At(c, z) => z = x
    BY <2>1 DEF Kitchen
  <2>3. \A z \in Restaurants : Mine(c) \notin cooking'[z]
    BY <1>2, <1>3, <1>8, <2>2 DEF At
  <2>4. ~(InProcess(c, 1) /\ Logged("cancelled", c))
    BY <2>1 DEF Kitchen
  <2>5. Logged("ready", c) => Logged("cancelled", c)
    BY <2>1 DEF Kitchen
  <2>6. \A n \in Mail : ~Resends(n, c)
    <3>1. ASSUME NEW n \in Mail, Resends(n, c) PROVE FALSE
      <4>1. n \in Message
        BY BoxTypes DEF Mail
      <4>2. Current(n) /\ n.restaurant \in Restaurants /\ cooking[n.restaurant] = {}
        BY <3>1, <4>1, RegistrationFields DEF Resends, Current, Registering, Mail
      <4>3. At(c, n.restaurant)
        BY <3>1 DEF Resends, At
      <4> QED BY <2>1, <2>2, <4>2, <4>3
    <3> QED BY <3>1
  <2>7. Ahead(answer, c)'
    <3> DEFINE n == [type |-> answer, customer |-> o.customer]
               k == Len(mailbox) + 1
    <3>1. n.type = answer /\ n.customer = c /\ mailbox' = Append(mailbox, n)
      BY <1>1, <1>8
    <3> HIDE DEF n
    <3>2. /\ Len(mailbox) \in Nat /\ Len(mailbox') = k /\ mailbox'[k] = n
          /\ \A i \in 1 .. Len(mailbox) : mailbox'[i] = mailbox[i]
      BY <3>1, ItemsSent
    <3>3. k \in 1 .. Len(mailbox')
      BY <3>2
    <3>4. ASSUME NEW j \in 1 .. k PROVE ~Resends(mailbox[j], c)'
      <4>1. CASE j = k
        BY <3>1, <3>2, <4>1 DEF Resends, Current
      <4>2. CASE j # k
        <5>1. j \in 1 .. Len(mailbox)
          BY <3>2, <4>2
        <5>2. mailbox'[j] = mailbox[j] /\ ~Resends(mailbox[j], c)
          BY <2>6, <3>2, <5>1 DEF Mail
        <5> QED BY <1>3, <1>5, <5>2 DEF Resends, Current
      <4> QED BY <4>1, <4>2
    <3>5. PICK i \in 1 .. Len(mailbox') : i = k
      BY <3>3
    <3>6. /\ mailbox'[i].type = answer /\ mailbox'[i].customer = c
          /\ \A j \in 1 .. i : ~Resends(mailbox[j], c)'
      BY <3>1, <3>2, <3>4, <3>5
    <3> QED BY <3>6 DEF Ahead
  <2>8. \A y, z \in Restaurants : At(c, y)' /\ At(c, z)' => y = z
    BY <1>5, <2>2
  <2>9. Logged("authorized", c)'
    BY <1>3, <2>2 DEF Logged
  <2>10. CASE answer = "OrderReady"
    <3>1. /\ Logged("ready", c)'
          /\ Logged("cancelled", c)' <=> Logged("cancelled", c)
      BY <1>1, <1>2, <1>8, <2>10 DEF Note, Logged
    <3>2. ~(InProcess(c, 1)' /\ Logged("cancelled", c)')
      BY <1>5, <2>4, <3>1
    <3> QED BY <1>4, <1>5, <2>2, <2>3, <2>7, <2>8, <2>9, <2>10, <3>2 DEF Kitchen
  <2>11. CASE answer = "OrderCancelled"
    <3>1. /\ Logged("cancelled", c)'
          /\ Logged("ready", c)' <=> Logged("ready", c)
      BY <1>1, <1>2, <1>8, <2>11 DEF Note, Logged
    <3>2. InProcess(c, 1)' => ~Logged("ready", c)'
      BY <1>5, <2>4, <2>5, <3>1
    <3> QED BY <1>4, <1>5, <2>2, <2>3, <2>7, <2>8, <2>9, <2>11, <3>1, <3>2
        DEF Kitchen
  <2> QED BY <2>10, <2>11
<1> QED BY <1>7, <1>8

(* A customer orders: nobody has heard of its order.                       *)
LEMMA KitchenChoose ==
    ASSUME MaxOrders = 1, TypeInv, NEW c \in Customers, ChooseRestaurant(c),
           Payment(c), Kitchen(c)
    PROVE  Kitchen(c)'
<1>1. ~Logged("authorized", c)
  <2>1. placed[c] \in Nat /\ placed[c] < 1
    BY BoxTypes DEF ChooseRestaurant
  <2> QED BY <2>1 DEF Payment
<1>2. /\ ~Logged("ready", c) /\ ~Logged("cancelled", c)
      /\ \A x \in Restaurants : ~At(c, x)
  BY <1>1 DEF Kitchen
<1>3. log' = log /\ cooking' = cooking /\ pending_orders' = pending_orders
  BY DEF ChooseRestaurant, managerVars, orderVars, history
<1>4. /\ ~Logged("ready", c)' /\ ~Logged("cancelled", c)'
      /\ \A x \in Restaurants : ~At(c, x)'
  BY <1>2, <1>3 DEF Logged, At, Mine
<1> QED BY <1>4 DEF Kitchen, At

(* The other steps of the clients do not reach the order at its restaurant.*)
LEMMA KitchenClients ==
    ASSUME TypeInv, Registering, NEW c \in Customers, Kitchen(c),
           \/ \E a \in Customers : StartCustomer(a) \/ Customer(a) \/ GetRestaurants(a)
           \/ \E r \in Riders : StartRider(r) \/ Rider(r)
           \/ \E x \in Restaurants : StartRestaurant(x)
           \/ StartPaymentSystem
           \/ PaymentSystem,
           ~ChooseRestaurant(c)
    PROVE  Kitchen(c)'
<1>1. [Next]_vars
  BY DEF Next
<1>2. Asked(c)' => Asked(c)
  <2>1. Requests \in FlyingTypes
    BY DEF FlyingTypes
  <2>2. Flying(Requests, c)' => Flying(Requests, c)
    BY <1>1, <2>1, FlyingStep
  <2> QED BY <2>2 DEF Flying, Asked, Pending
<1>3. /\ pending_orders' = pending_orders /\ orders_in_process' = orders_in_process
      /\ mailbox' = mailbox \/ \E n : mailbox' = Append(mailbox, n)
  BY DEF StartCustomer, StartRider, StartRestaurant, StartPaymentSystem,
     Restarted, Customer, ChooseRestaurant, FinishDelivery, GetRestaurants,
     Rider, DeliveryOffer, DeliveryOfferConfirmed, GoToCustomerLocation,
     PaymentSystem, ExecuteAutorization, ExecutePayment, managerVars, orderVars
<1>4. \A x \in Restaurants : cooking'[x] \subseteq cooking[x]
  <2>1. cooking \in [Restaurants -> SUBSET Orders]
    BY DEF TypeInv, TypeOK
  <2>2. CASE cooking' = cooking
    BY <2>2
  <2>3. CASE \E x \in Restaurants : StartRestaurant(x)
    BY <2>1, <2>3 DEF StartRestaurant
  <2>4. CASE \/ \E a \in Customers :
                   StartCustomer(a) \/ Customer(a) \/ GetRestaurants(a)
             \/ \E r \in Riders : StartRider(r) \/ Rider(r)
             \/ StartPaymentSystem
             \/ PaymentSystem
    BY <2>2, <2>4 DEF StartCustomer, StartRider, StartPaymentSystem, Restarted,
       Customer, ChooseRestaurant, FinishDelivery, GetRestaurants, Rider,
       DeliveryOffer, DeliveryOfferConfirmed, GoToCustomerLocation,
       PaymentSystem, ExecuteAutorization, ExecutePayment
  <2> QED BY <2>3, <2>4
<1>5. /\ Logged("ready", c)' <=> Logged("ready", c)
      /\ Logged("cancelled", c)' <=> Logged("cancelled", c)
      /\ log \subseteq log'
  <2>1. CASE PaymentSystem
    <3>1. \/ log' = log
          \/ \E e \in {"authorized", "charged"} :
                 \E d, p : log' = log \cup {<<e, d, p>>}
      BY <2>1 DEF PaymentSystem, ExecuteAutorization, ExecutePayment, Note
    <3> QED BY <3>1 DEF Logged
  <2>2. CASE ~PaymentSystem
    <3>1. log' = log
      BY <2>2 DEF StartCustomer, StartRider, StartRestaurant,
         StartPaymentSystem, Restarted, Customer, ChooseRestaurant,
         FinishDelivery, GetRestaurants, Rider, DeliveryOffer,
         DeliveryOfferConfirmed, GoToCustomerLocation, history
    <3> QED BY <3>1 DEF Logged
  <2> QED BY <2>1, <2>2
<1>6. \A n \in Mail : Resends(n, c)' => Resends(n, c)
  BY <1>1, <1>3, ResendsKept
<1>7. \A type : Ahead(type, c) => Ahead(type, c)'
  BY <1>3, <1>6, AheadSent
<1>8. InProcess(c, 1)' => InProcess(c, 1)
  BY <1>3 DEF InProcess
<1> QED BY <1>2, <1>3, <1>4, <1>5, <1>7, <1>8, KitchenKept

(* Every step keeps an order at its restaurant as it should be.            *)
LEMMA KitchenStep ==
    ASSUME MaxOrders = 1, TypeInv, AuthInv, OnceInv, Connected, Offered,
           Registering, [Next]_vars, NEW c \in Customers, Payment(c), Kitchen(c)
    PROVE  Kitchen(c)'
<1>1. CASE UNCHANGED vars
  BY <1>1 DEF vars, connections, orderVars, clientVars, history, Kitchen, Asked,
     Pending, Sent, Held, Logged, At, Mine, Ahead, Resends, Current, InProcess
<1>2. CASE Next
  BY <1>2, KitchenHandle, KitchenCooked, KitchenChoose, KitchenClients DEF Next
<1> QED BY <1>1, <1>2

----------------------------------------------------------------------------
(* The story of an order.                                                  *)

(* Nothing has happened to begin with.                                     *)
LEMMA StoryInit == Init => StoryInv
<1> SUFFICES ASSUME Init PROVE StoryInv
  OBVIOUS
<1>1. /\ \A c \in Customers \cup Riders \cup {Gateway} : c \in Clients
      /\ \A cl \in Clients : outbox[cl] = <<>>
      /\ mailbox = <<>> /\ log = {} /\ assigned = {}
  BY DEF Init, Clients
<1>2. Connected
  BY <1>1 DEF Init, Connected
<1>3. Offered
  BY <1>1 DEF Init, Offered, AllBacked, QueueBacked, Given, Logged
<1>4. Registering
  BY <1>1 DEF Init, Registering, Clients
<1>5. ASSUME NEW c \in Customers PROVE Payment(c) /\ Kitchen(c)
  <2>1. \A types : ~Held(mailbox, types, c, 1) /\ ~Held(outbox[Gateway], types, c, 1)
    BY <1>1 DEF Held
  <2>2. \A x \in Restaurants : cooking[x] = {} /\ pending_orders[x] = {}
    BY DEF Init
  <2>3. \A e : ~Logged(e, c)
    BY <1>1 DEF Logged
  <2> QED BY <2>1, <2>2, <2>3 DEF Payment, Kitchen, At, Asked, Pending, Sent
<1> QED BY <1>2, <1>3, <1>4, <1>5 DEF StoryInv

(* Every step keeps the story of every order.                              *)
LEMMA StoryStep ==
    ASSUME MaxOrders = 1, TypeInv, AuthInv, OnceInv, StoryInv, [Next]_vars
    PROVE  StoryInv'
<1>1. Connected' /\ Offered' /\ Registering'
  BY ConnectedStep, OfferedStep, RegisteringStep DEF StoryInv
<1>2. \A c \in Customers : Payment(c)' /\ Kitchen(c)'
  BY PaymentStep, KitchenStep DEF StoryInv
<1> QED BY <1>1, <1>2 DEF StoryInv

----------------------------------------------------------------------------
(* The status of an order, from the log l, the assignments a and the       *)
(* number n of orders that its customer c has placed.                      *)
StatusFrom(l, a, n, c) ==
    LET Is(event) == <<event, c, 1>> \in l
    IN  IF Is("charged") THEN "charged"
        ELSE IF \E r \in Riders : <<r, c, 1>> \in a THEN "assigned"
        ELSE IF Is("cancelled") THEN "cancelled"
        ELSE IF Is("ready") THEN "ready"
        ELSE IF Is("refused") THEN "refused"
        ELSE IF Is("authorized") THEN "authorized"
        ELSE IF n >= 1 THEN "placed" ELSE "none"

(* The first of the stages is the one that is selected.                    *)
LEMMA FirstStage ==
    ASSUME NEW I \in SUBSET (1 .. 8), NEW k \in I, \A j \in I : k <= j
    PROVE  (IF I # {} THEN Min(I) ELSE 0) = k
<1>1. Min(I) = CHOOSE x \in I : \A y \in I : x <= y
  BY DEF Min
<1>2. \A x \in I : (\A y \in I : x <= y) => x = k
  OBVIOUS
<1> QED BY <1>1, <1>2

(* I are the stages that the order has reached.                            *)
Reads(I, l, a, n, c) ==
    /\ I \in SUBSET (1 .. 8) /\ 8 \in I
    /\ 1 \in I <=> <<"charged", c, 1>> \in l
    /\ 2 \in I <=> (\/ <<"assigned", c, 1>> \in l
                    \/ \E r \in Riders : <<r, c, 1>> \in a)
    /\ 3 \in I <=> <<"cancelled", c, 1>> \in l
    /\ 4 \in I <=> <<"ready", c, 1>> \in l
    /\ 5 \in I <=> <<"refused", c, 1>> \in l
    /\ 6 \in I <=> <<"authorized", c, 1>> \in l
    /\ 7 \in I <=> (<<"placed", c, 1>> \in l \/ n >= 1)
    /\ l \subseteq Events \X Customers \X Prices

(* Reading the stages from the furthest on.                                *)
LEMMA StatusOfStages ==
    ASSUME NEW I, NEW l, NEW a, NEW n, NEW c, Reads(I, l, a, n, c)
    PROVE  Stages[IF I # {} THEN Min(I) ELSE 0] = StatusFrom(l, a, n, c)
<1> USE DEF Reads
<1>1. <<"assigned", c, 1>> \notin l /\ <<"placed", c, 1>> \notin l
  BY DEF Events
<1>2. \A k \in I : (\A j \in I : k <= j)
        => Stages[IF I # {} THEN Min(I) ELSE 0] = Stages[k]
  BY FirstStage
<1>3. /\ Stages[1] = "charged" /\ Stages[2] = "assigned"
      /\ Stages[3] = "cancelled" /\ Stages[4] = "ready"
      /\ Stages[5] = "refused" /\ Stages[6] = "authorized"
      /\ Stages[7] = "placed" /\ Stages[8] = "none"
  BY DEF Stages
<1> DEFINE s == Stages[IF I # {} THEN Min(I) ELSE 0]
<1>4. \A k \in I : (\A j \in I : k <= j) => s = Stages[k]
  BY <1>2
<1> HIDE DEF s
<1>5. \A j \in I : j \in {1, 2, 3, 4, 5, 6, 7, 8}
  OBVIOUS
<1>6. CASE 1 \in I
  BY <1>3, <1>4, <1>5, <1>6 DEF StatusFrom, s
<1>7. CASE 1 \notin I /\ 2 \in I
  BY <1>1, <1>3, <1>4, <1>5, <1>7 DEF StatusFrom, s
<1>8. CASE 1 \notin I /\ 2 \notin I /\ 3 \in I
  BY <1>1, <1>3, <1>4, <1>5, <1>8 DEF StatusFrom, s
<1>9. CASE 1 \notin I /\ 2 \notin I /\ 3 \notin I /\ 4 \in I
  BY <1>1, <1>3, <1>4, <1>5, <1>9 DEF StatusFrom, s
<1>10. CASE 1 \notin I /\ 2 \notin I /\ 3 \notin I /\ 4 \notin I /\ 5 \in I
  BY <1>1, <1>3, <1>4, <1>5, <1>10 DEF StatusFrom, s
<1>11. CASE /\ 1 \notin I /\ 2 \notin I /\ 3 \notin I /\ 4 \notin I
            /\ 5 \notin I /\ 6 \in I
  BY <1>1, <1>3, <1>4, <1>5, <1>11 DEF StatusFrom, s
<1>12. CASE /\ 1 \notin I /\ 2 \notin I /\ 3 \notin I /\ 4 \notin I
            /\ 5 \notin I /\ 6 \notin I /\ 7 \in I
  BY <1>1, <1>3, <1>4, <1>5, <1>12 DEF StatusFrom, s
<1>13. CASE /\ 1 \notin I /\ 2 \notin I /\ 3 \notin I /\ 4 \notin I
            /\ 5 \notin I /\ 6 \notin I /\ 7 \notin I
  BY <1>1, <1>3, <1>4, <1>5, <1>13 DEF StatusFrom, s
<1> QED BY <1>6, <1>7, <1>8, <1>9, <1>10, <1>11, <1>12, <1>13

(* The status of the order of c, before a step and after it.               *)
LEMMA StatusIs ==
    TypeInv => \A c \in Customers :
        StatusOf(Mine(c)) = StatusFrom(log, assigned, placed[c], c)
<1> SUFFICES ASSUME TypeInv, NEW c \in Customers
             PROVE  StatusOf(Mine(c)) = StatusFrom(log, assigned, placed[c], c)
  OBVIOUS
<1> DEFINE o == Mine(c)
           I == {i \in 1 .. 8 : Reached(o, Stages[i])}
<1>1. StatusOf(o) = Stages[IF I # {} THEN Min(I) ELSE 0]
  <2>1. Len(Stages) = 8
    BY DEF Stages
  <2> QED BY <2>1 DEF StatusOf, SelectInSeq
<1>2. /\ o.customer = c /\ o.price = 1
      /\ Carriers(o) # {} <=> \E r \in Riders : <<r, c, 1>> \in assigned
  BY DEF Carriers, Mine
<1>3. log \subseteq Events \X Customers \X Prices
  BY DEF TypeInv, TypeOK
<1> HIDE DEF o
<1>4. Reads(I, log, assigned, placed[c], c)
  BY <1>2, <1>3 DEF Reached, Stages, Reads
<1> HIDE DEF I
<1>5. Stages[IF I # {} THEN Min(I) ELSE 0]
        = StatusFrom(log, assigned, placed[c], c)
  BY <1>4, StatusOfStages
<1> QED BY <1>1, <1>5 DEF o

(* The same of the next state.                                             *)
LEMMA StatusNext ==
    ASSUME TypeInv, [Next]_vars
    PROVE  \A c \in Customers :
             StatusOf(Mine(c))' = StatusFrom(log', assigned', placed'[c], c)
<1>1. TypeInv'
  BY TypeStep
<1>2. (TypeInv => \A c \in Customers :
          StatusOf(Mine(c)) = StatusFrom(log, assigned, placed[c], c))'
  BY StatusIs, PTL
<1>3. \A c \in Customers :
          (StatusOf(Mine(c)) = StatusFrom(log, assigned, placed[c], c))'
  BY <1>1, <1>2
<1> QED BY <1>3 DEF StatusFrom

Statuses == [o \in Orders |-> StatusOf(o)]
Carrying == [o \in Orders |-> CarrierOf(o)]

(* A step that changes the status of one order, and the carrier of none.   *)
LEMMA Advance ==
    ASSUME MaxOrders = 1, TypeInv, [Next]_vars,
           NEW c \in Customers, NEW from, NEW to,
           StatusFrom(log, assigned, placed[c], c) = from,
           StatusFrom(log', assigned', placed'[c], c) = to,
           \A d \in Customers \ {c} :
              StatusFrom(log', assigned', placed'[d], d)
                = StatusFrom(log, assigned, placed[d], d)
    PROVE  /\ Mine(c) \in Orders
           /\ Statuses[Mine(c)] = from
           /\ Statuses' = [Statuses EXCEPT ![Mine(c)] = to]
<1>1. /\ Mine(c) \in Orders
      /\ \A o \in Orders : /\ o.customer \in Customers /\ o = Mine(o.customer)
                           /\ o # Mine(c) => o.customer # c
  BY OnePrice DEF Orders, Mine
<1>2. StatusOf(Mine(c)) = from /\ StatusOf(Mine(c))' = to
  BY StatusIs, StatusNext
<1>3. ASSUME NEW o \in Orders, o # Mine(c)
      PROVE  StatusOf(o)' = StatusOf(o)
  <2>1. PICK d \in Customers \ {c} : o = Mine(d)
    BY <1>1, <1>3
  <2>2. /\ StatusOf(Mine(d)) = StatusFrom(log, assigned, placed[d], d)
        /\ StatusOf(Mine(d))' = StatusFrom(log', assigned', placed'[d], d)
    BY StatusIs, StatusNext
  <2>3. StatusOf(Mine(d))' = StatusOf(Mine(d))
    BY <2>2
  <2>4. StatusOf(o) = StatusOf(Mine(d)) /\ StatusOf(o)' = StatusOf(Mine(d))'
    BY <2>1 DEF Mine
  <2> QED BY <2>3, <2>4
<1>4. StatusOf(Mine(c))' = [Statuses EXCEPT ![Mine(c)] = to][Mine(c)]
  BY <1>1, <1>2 DEF Statuses
<1> QED BY <1>1, <1>2, <1>3 DEF Statuses

(* A step that assigns nothing changes no carrier.                         *)
LEMMA SameCarriers ==
    ASSUME assigned' = assigned
    PROVE  Carrying' = Carrying
BY DEF Carrying, CarrierOf, Carriers

(* A step that changes no status and no carrier.                           *)
LEMMA Idle ==
    ASSUME MaxOrders = 1, TypeInv, [Next]_vars, assigned' = assigned,
           \A d \in Customers :
              StatusFrom(log', assigned', placed'[d], d)
                = StatusFrom(log, assigned, placed[d], d)
    PROVE  UNCHANGED Lifecycle!vars
<1>1. ASSUME NEW o \in Orders PROVE StatusOf(o)' = StatusOf(o)
  <2>1. PICK d \in Customers : o = Mine(d)
    BY OnePrice DEF Orders
  <2>2. StatusOf(Mine(d))' = StatusOf(Mine(d))
    BY StatusIs, StatusNext
  <2>3. StatusOf(o) = StatusOf(Mine(d)) /\ StatusOf(o)' = StatusOf(Mine(d))'
    BY <2>1 DEF Mine
  <2> QED BY <2>2, <2>3
<1>2. Statuses' = Statuses
  BY <1>1 DEF Statuses
<1>3. Carrying' = Carrying
  BY SameCarriers
<1> QED BY <1>2, <1>3 DEF Lifecycle!vars, Statuses, Carrying

(* A step that takes one order from one stage to the next, and assigns     *)
(* nothing, is a step of OrderLifecycle.                                   *)
LEMMA Progress ==
    ASSUME MaxOrders = 1, TypeInv, [Next]_vars, assigned' = assigned,
           NEW c \in Customers, NEW from, NEW to,
           <<from, to>> \in {<<"none", "placed">>, <<"placed", "authorized">>,
                             <<"placed", "refused">>, <<"authorized", "ready">>,
                             <<"authorized", "cancelled">>,
                             <<"assigned", "charged">>},
           StatusFrom(log, assigned, placed[c], c) = from,
           StatusFrom(log', assigned', placed'[c], c) = to,
           \A d \in Customers \ {c} :
              StatusFrom(log', assigned', placed'[d], d)
                = StatusFrom(log, assigned, placed[d], d)
    PROVE  Lifecycle!Next
<1>1. /\ Mine(c) \in Orders /\ Statuses[Mine(c)] = from
      /\ Statuses' = [Statuses EXCEPT ![Mine(c)] = to]
  BY Advance
<1>2. Carrying' = Carrying
  BY SameCarriers
<1>3. PICK o \in Orders : o = Mine(c)
  BY <1>1
<1>4. Lifecycle!Becomes(o, from, to)
  BY <1>1, <1>3 DEF Lifecycle!Becomes, Statuses
<1>5. \/ Lifecycle!Place(o) \/ Lifecycle!Authorize(o) \/ Lifecycle!Refuse(o)
      \/ Lifecycle!Cook(o) \/ Lifecycle!Cancel(o) \/ Lifecycle!Charge(o)
  BY <1>2, <1>4 DEF Lifecycle!Place, Lifecycle!Authorize, Lifecycle!Refuse,
     Lifecycle!Cook, Lifecycle!Cancel, Lifecycle!Charge, Carrying
<1> QED BY <1>5 DEF Lifecycle!Next

----------------------------------------------------------------------------
(* The steps that take an order on.                                        *)

(* One more entry of the log says nothing of the orders of others.         *)
LEMMA LoggedOther ==
    ASSUME NEW event, NEW c, log' = log \cup {<<event, c, 1>>},
           assigned' = assigned, placed' = placed
    PROVE  \A d \in Customers \ {c} :
              StatusFrom(log', assigned', placed'[d], d)
                = StatusFrom(log, assigned, placed[d], d)
BY DEF StatusFrom

(* A payment that is refused was not authorized.                           *)
LEMMA MapRefused ==
    ASSUME MaxOrders = 1, TypeInv, OnceInv, StoryInv, Handle,
           Head(mailbox).type \in {"AuthorizePayment", "PaymentDenied"},
           log' = log \cup {<<"refused", Head(mailbox).customer,
                                         Head(mailbox).price>>}
    PROVE  Lifecycle!Next
<1> DEFINE m == Head(mailbox)
           c == m.customer
           early == {"AuthorizePayment", "PaymentDenied"}
<1>1. mailbox # <<>> /\ mailbox \in Seq(Message) /\ m \in Message
  <2>1. mailbox # <<>> /\ mailbox \in Seq(Message)
    BY BoxTypes DEF Handle
  <2> QED BY <2>1
<1>2. m.type \in Requests /\ c \in Customers /\ m.price = 1
  <2>1. m.type \in Requests
    BY DEF Requests
  <2> QED BY <1>1, <2>1, RequestFields, OnePrice
<1>3. assigned' = assigned /\ placed' = placed
  BY HandleQuiet
<1>4. m.type \in early
  OBVIOUS
<1> HIDE DEF early
<1>5. Held(mailbox, early, c, 1) /\ Held(mailbox, Requests, c, 1)
  BY <1>1, <1>2, <1>4, HeldTail
<1> HIDE DEF c, m
<1>6. ~Logged("authorized", c)
  BY <1>2, <1>5 DEF StoryInv, Payment, early
<1>7. ~Logged("ready", c) /\ ~Logged("cancelled", c)
  BY <1>2, <1>6 DEF StoryInv, Kitchen
<1>8. ~Given(c, 1) /\ ~Settled(c, 1) /\ placed[c] >= 1
  <2>1. Ledger(c, 1) /\ Pending(c, 1)
    BY <1>2, <1>5, OnePrice DEF OnceInv, Pending
  <2>2. placed[c] \in Nat
    BY <1>2, BoxTypes
  <2> QED BY <2>1, <2>2 DEF Ledger
<1>9. log' = log \cup {<<"refused", c, 1>>}
  BY <1>2 DEF c, m
<1>10. /\ StatusFrom(log, assigned, placed[c], c) = "placed"
       /\ StatusFrom(log', assigned', placed'[c], c) = "refused"
  BY <1>3, <1>6, <1>7, <1>8, <1>9 DEF StatusFrom, Logged, Given, Settled
<1>11. \A d \in Customers \ {c} :
          StatusFrom(log', assigned', placed'[d], d)
            = StatusFrom(log, assigned, placed[d], d)
  BY <1>3, <1>9, LoggedOther
<1>12. [Next]_vars
  BY DEF Next
<1>13. c \in Customers /\ assigned' = assigned
  BY <1>2, <1>3
<1> QED BY <1>10, <1>11, <1>12, <1>13, Progress

(* What the payment system authorizes nobody has cooked.                   *)
LEMMA MapAuthorized ==
    ASSUME MaxOrders = 1, TypeInv, OnceInv, StoryInv, ExecuteAutorization,
           log' = log \cup {<<"authorized", Head(outbox[Gateway]).customer,
                                            Head(outbox[Gateway]).price>>}
    PROVE  Lifecycle!Next
<1> DEFINE line == Head(outbox[Gateway])
           c == line.customer
<1>1. c \in Customers /\ line.price = 1 /\ Sent(c, line.price)
  BY LineTaken, OnePrice DEF PaymentSystem
<1>2. assigned' = assigned /\ placed' = placed
  BY DEF ExecuteAutorization, clientVars
<1>3. log' = log \cup {<<"authorized", c, 1>>}
  BY <1>1
<1> HIDE DEF c, line
<1>4. Sent(c, 1)
  BY <1>1
<1>5. ~Logged("authorized", c)
  BY <1>1, <1>4 DEF StoryInv, Payment
<1>6. ~Logged("ready", c) /\ ~Logged("cancelled", c)
  BY <1>1, <1>5 DEF StoryInv, Kitchen
<1>7. ~Given(c, 1) /\ ~Settled(c, 1) /\ placed[c] >= 1
  <2>1. Ledger(c, 1)
    BY <1>1, OnePrice DEF OnceInv
  <2>2. placed[c] \in Nat
    BY <1>1, BoxTypes
  <2> QED BY <1>4, <2>1, <2>2 DEF Ledger
<1>8. /\ StatusFrom(log, assigned, placed[c], c) = "placed"
      /\ StatusFrom(log', assigned', placed'[c], c) = "authorized"
  BY <1>2, <1>3, <1>5, <1>6, <1>7 DEF StatusFrom, Logged, Given, Settled
<1>9. \A d \in Customers \ {c} :
          StatusFrom(log', assigned', placed'[d], d)
            = StatusFrom(log, assigned, placed[d], d)
  BY <1>2, <1>3, LoggedOther
<1>10. [Next]_vars
  BY DEF Next, PaymentSystem
<1> QED BY <1>1, <1>2, <1>8, <1>9, <1>10, Progress

(* What is charged was given to a rider.                                   *)
LEMMA MapCharged ==
    ASSUME MaxOrders = 1, TypeInv, OnceInv, StoryInv, ExecutePayment,
           log' = log \cup {<<"charged", Head(outbox[Gateway]).customer,
                                         Head(outbox[Gateway]).price>>},
           log' # log
    PROVE  Lifecycle!Next
<1> DEFINE line == Head(outbox[Gateway])
           c == line.customer
<1>1. c \in Customers /\ line.price = 1
  BY LineTaken, OnePrice DEF PaymentSystem
<1>2. assigned' = assigned /\ placed' = placed
  BY DEF ExecutePayment, clientVars
<1>3. log' = log \cup {<<"charged", c, 1>>} /\ ~Logged("charged", c)
  BY <1>1 DEF Logged
<1>4. Given(c, 1)
  <2>1. /\ outbox[Gateway] # <<>> /\ outbox[Gateway] \in Seq(Line)
        /\ line.type = "ExecutePayment"
    BY BoxTypes DEF ExecutePayment, Taken
  <2>2. AllBacked(outbox[Gateway], log, assigned)
    BY BoxTypes DEF StoryInv, Offered
  <2>3. Backed(line, log, assigned)
    BY <2>1, <2>2, BackedTail
  <2> HIDE DEF line
  <2> QED BY <2>1, <2>3 DEF Backed, Given
<1> HIDE DEF c, line
<1>5. /\ StatusFrom(log, assigned, placed[c], c) = "assigned"
      /\ StatusFrom(log', assigned', placed'[c], c) = "charged"
  BY <1>2, <1>3, <1>4 DEF StatusFrom, Logged, Given
<1>6. \A d \in Customers \ {c} :
          StatusFrom(log', assigned', placed'[d], d)
            = StatusFrom(log, assigned, placed[d], d)
  BY <1>2, <1>3, LoggedOther
<1>7. [Next]_vars
  BY DEF Next, PaymentSystem
<1> QED BY <1>1, <1>2, <1>5, <1>6, <1>7, Progress

(* What a restaurant answers for was authorized, and not answered before   *)
(* unless it was cancelled, which it stays.                                *)
LEMMA MapAnswered ==
    ASSUME MaxOrders = 1, TypeInv, OnceInv, StoryInv,
           NEW x \in Restaurants, ContinueOrder(x)
    PROVE  Lifecycle!Next \/ UNCHANGED Lifecycle!vars
<1>1. PICK o \in cooking[x], answer \in {"OrderReady", "OrderCancelled"} :
          /\ Note(IF answer = "OrderReady" THEN "ready" ELSE "cancelled",
                  o.customer, o.price)
          /\ UNCHANGED <<managerVars, outbox, clientVars, assigned>>
  BY DEF ContinueOrder
<1>2. PICK c \in Customers : o = Mine(c)
  <2>1. o \in Orders
    BY DEF TypeInv, TypeOK
  <2> QED BY <2>1, OnePrice DEF Orders
<1>3. PICK event \in {"ready", "cancelled"} : log' = log \cup {<<event, c, 1>>}
  BY <1>1, <1>2 DEF Note, Mine
<1>4. assigned' = assigned /\ placed' = placed
  BY <1>1 DEF clientVars
<1>5. /\ At(c, x)
      /\ Logged("ready", c) => Logged("cancelled", c)
  BY <1>2 DEF StoryInv, Kitchen, At
<1>6. Logged("authorized", c) /\ ~Logged("refused", c)
  BY <1>5 DEF StoryInv, Kitchen, Payment
<1>7. /\ Given(c, 1) => Logged("ready", c)
      /\ Logged("charged", c) => Given(c, 1)
  BY DEF StoryInv, Offered
<1>8. \A d \in Customers \ {c} :
          StatusFrom(log', assigned', placed'[d], d)
            = StatusFrom(log, assigned, placed[d], d)
  BY <1>3, <1>4, LoggedOther
<1>9. [Next]_vars
  BY DEF Next
<1>10. CASE Logged("cancelled", c)
  <2>1. StatusFrom(log', assigned', placed'[c], c)
          = StatusFrom(log, assigned, placed[c], c)
    BY <1>3, <1>4, <1>10 DEF StatusFrom, Logged
  <2>2. \A d \in Customers :
          StatusFrom(log', assigned', placed'[d], d)
            = StatusFrom(log, assigned, placed[d], d)
    BY <1>8, <2>1
  <2> QED BY <1>4, <1>9, <2>2, Idle
<1>11. CASE ~Logged("cancelled", c)
  <2>1. /\ StatusFrom(log, assigned, placed[c], c) = "authorized"
        /\ StatusFrom(log', assigned', placed'[c], c) = event
    BY <1>3, <1>4, <1>5, <1>6, <1>7, <1>11 DEF StatusFrom, Logged, Given
  <2> QED BY <1>4, <1>8, <1>9, <2>1, Progress
<1> QED BY <1>10, <1>11

(* A customer places an order of which nobody has heard.                   *)
LEMMA MapPlaced ==
    ASSUME MaxOrders = 1, TypeInv, OnceInv, StoryInv,
           NEW c \in Customers, ChooseRestaurant(c)
    PROVE  Lifecycle!Next
<1>1. /\ placed[c] = 0 /\ placed' = [placed EXCEPT ![c] = 1]
      /\ placed \in [Customers -> 0 .. 1]
  <2>1. placed[c] \in Nat /\ placed[c] < 1 /\ placed \in [Customers -> 0 .. 1]
    BY BoxTypes DEF ChooseRestaurant
  <2>2. placed[c] = 0
    BY <2>1
  <2> QED BY <2>1, <2>2 DEF ChooseRestaurant
<1>2. log' = log /\ assigned' = assigned
  BY DEF ChooseRestaurant, history
<1>3. ~Given(c, 1) /\ ~Settled(c, 1)
  BY <1>1, OnePrice DEF OnceInv, Ledger
<1>4. ~Logged("authorized", c)
  BY <1>1 DEF StoryInv, Payment
<1>5. ~Logged("ready", c) /\ ~Logged("cancelled", c)
  BY <1>4 DEF StoryInv, Kitchen
<1>6. placed'[c] = 1 /\ \A d \in Customers \ {c} : placed'[d] = placed[d]
  BY <1>1
<1>7. /\ StatusFrom(log, assigned, placed[c], c) = "none"
      /\ StatusFrom(log', assigned', placed'[c], c) = "placed"
  BY <1>1, <1>2, <1>3, <1>4, <1>5, <1>6
     DEF StatusFrom, Logged, Given, Settled
<1>8. \A d \in Customers \ {c} :
          StatusFrom(log', assigned', placed'[d], d)
            = StatusFrom(log, assigned, placed[d], d)
  BY <1>2, <1>6
<1>9. [Next]_vars
  BY DEF Next, Customer
<1> QED BY <1>2, <1>7, <1>8, <1>9, Progress

(* The rider that is given an order is the first, and the order is ready.  *)
LEMMA MapAssigned ==
    ASSUME MaxOrders = 1, TypeInv, OnceInv, StoryInv, Handle,
           Head(mailbox).type = "DeliveryOfferAccepted",
           assigned' # assigned
    PROVE  Lifecycle!Next
<1> DEFINE m == Head(mailbox)
<1>1. PICK a \in Customers, r \in Riders, q \in Prices :
          /\ a = m.customer
          /\ InProcess(a, q) /\ orders_in_process[a].rider_id = None
          /\ assigned' = assigned \cup {<<r, a, q>>}
  BY OfferAccepted
<1>2. q = 1 /\ InProcess(a, 1) /\ assigned' = assigned \cup {<<r, a, 1>>}
  BY <1>1, OnePrice
<1>3. log' = log /\ placed' = placed
  BY HandleQuiet
<1>4. Logged("ready", a)
  <2>1. m = mailbox[1] /\ 1 \in 1 .. Len(mailbox)
    BY ItemsTaken
  <2>2. Backed(m, log, assigned)
    BY <2>1 DEF StoryInv, Offered, AllBacked
  <2> QED BY <1>1, <2>2 DEF Backed, Logged
<1> HIDE DEF m
<1>5. ~Given(a, 1) /\ ~Settled(a, 1)
  BY <1>1, <1>2, OnePrice DEF OnceInv, Ledger
<1>6. ~Logged("cancelled", a)
  BY <1>2, <1>4 DEF StoryInv, Kitchen
<1>7. /\ StatusFrom(log, assigned, placed[a], a) = "ready"
      /\ StatusFrom(log', assigned', placed'[a], a) = "assigned"
  BY <1>2, <1>3, <1>4, <1>5, <1>6 DEF StatusFrom, Logged, Given, Settled
<1>8. \A d \in Customers \ {a} :
          StatusFrom(log', assigned', placed'[d], d)
            = StatusFrom(log, assigned, placed[d], d)
  BY <1>2, <1>3 DEF StatusFrom
<1>9. [Next]_vars
  BY DEF Next
<1>10. /\ Mine(a) \in Orders /\ Statuses[Mine(a)] = "ready"
       /\ Statuses' = [Statuses EXCEPT ![Mine(a)] = "assigned"]
  BY <1>7, <1>8, <1>9, Advance
<1>11. ASSUME NEW o \in Orders, o # Mine(a)
       PROVE  CarrierOf(o)' = CarrierOf(o)
  <2>1. o.customer # a
    BY <1>11, OnePrice
  <2>2. Carriers(o)' = Carriers(o)
    BY <1>2, <2>1 DEF Carriers
  <2> QED BY <2>2 DEF CarrierOf
<1>12. CarrierOf(Mine(a))' = r
  <2>1. Mine(a).customer = a /\ Mine(a).price = 1
    BY DEF Mine
  <2>2. Carriers(Mine(a))' = {r}
    BY <1>2, <1>5, <2>1 DEF Carriers, Given, Mine
  <2>3. \A z \in Riders : z \in {r} <=> z = r
    OBVIOUS
  <2> QED BY <2>2, <2>3 DEF CarrierOf
<1>13. Carrying' = [Carrying EXCEPT ![Mine(a)] = r]
  <2>1. CarrierOf(Mine(a))' = [Carrying EXCEPT ![Mine(a)] = r][Mine(a)]
    BY <1>10, <1>12 DEF Carrying
  <2> QED BY <1>10, <1>11, <1>12, <2>1 DEF Carrying
<1>14. PICK o \in Orders : o = Mine(a)
  BY <1>10
<1>15. Lifecycle!Assign(o, r)
  BY <1>10, <1>13, <1>14
     DEF Lifecycle!Assign, Lifecycle!Becomes, Statuses, Carrying
<1> QED BY <1>15 DEF Lifecycle!Next

(* Every step is a step of one order, or of none.                          *)
LEMMA MapStep ==
    ASSUME MaxOrders = 1, TypeInv, OnceInv, StoryInv, [Next]_vars
    PROVE  [Lifecycle!Next]_(Lifecycle!vars)
<1> DEFINE m == Head(mailbox)
           line == Head(outbox[Gateway])
<1>1. CASE \E c \in Customers : ChooseRestaurant(c)
  BY <1>1, MapPlaced
<1>2. CASE \E x \in Restaurants : ContinueOrder(x)
  BY <1>2, MapAnswered
<1>3. CASE Handle /\ m.type = "DeliveryOfferAccepted" /\ assigned' # assigned
  BY <1>3, MapAssigned
<1>4. CASE /\ Handle /\ m.type \in {"AuthorizePayment", "PaymentDenied"}
           /\ log' = log \cup {<<"refused", m.customer, m.price>>}
  BY <1>4, MapRefused
<1>5. CASE /\ ExecuteAutorization
           /\ log' = log \cup {<<"authorized", line.customer, line.price>>}
  BY <1>5, MapAuthorized
<1>6. CASE /\ ExecutePayment /\ log' # log
           /\ log' = log \cup {<<"charged", line.customer, line.price>>}
  BY <1>6, MapCharged
<1>7. CASE /\ log' = log /\ assigned' = assigned
           /\ ~\E c \in Customers : ChooseRestaurant(c)
  <2>1. \A c \in Customers : placed'[c] = placed[c]
    BY <1>7, PlacedStep
  <2>2. \A d \in Customers :
            StatusFrom(log', assigned', placed'[d], d)
              = StatusFrom(log, assigned, placed[d], d)
    BY <1>7, <2>1
  <2> QED BY <1>7, <2>2, Idle
<1>8. CASE /\ assigned' # assigned
           /\ ~(Handle /\ m.type = "DeliveryOfferAccepted")
  <2>1. ~Handle
    BY <1>8, HandleQuiet
  <2>2. assigned' = assigned
    BY <2>1 DEF Next, StartCustomer, StartRider, StartRestaurant,
         StartPaymentSystem, Restarted, Customer, ChooseRestaurant,
         FinishDelivery, GetRestaurants, Rider, DeliveryOffer,
         DeliveryOfferConfirmed, GoToCustomerLocation, ContinueOrder,
         PaymentSystem, ExecuteAutorization, ExecutePayment, history, vars
  <2> QED BY <1>8, <2>2
<1> QED BY <1>1, <1>2, <1>3, <1>4, <1>5, <1>6, <1>7, <1>8, LogStep

(* To begin with, no order is placed.                                      *)
LEMMA MapInit == Init => Lifecycle!Init
<1> SUFFICES ASSUME Init PROVE Lifecycle!Init
  OBVIOUS
<1>1. ASSUME NEW o \in Orders
      PROVE  StatusOf(o) = "none" /\ CarrierOf(o) = None
  <2>1. Carriers(o) = {} /\ log = {} /\ placed[o.customer] = 0
    BY DEF Init, Carriers, Orders
  <2>2. o.price \in Nat /\ o.price >= 1
    BY OrderFlowAssumption DEF Orders, Prices
  <2> DEFINE I == {i \in 1 .. 8 : Reached(o, Stages[i])}
  <2>3. Len(Stages) = 8
    BY DEF Stages
  <2>4. StatusOf(o) = Stages[IF I # {} THEN Min(I) ELSE 0]
    BY <2>3 DEF StatusOf, SelectInSeq
  <2>5. \A i \in 1 .. 8 : Reached(o, Stages[i]) <=> i = 8
    BY <2>1, <2>2 DEF Reached, Stages
  <2>6. I \in SUBSET (1 .. 8) /\ 8 \in I /\ \A j \in I : 8 <= j
    BY <2>5
  <2> HIDE DEF I
  <2>7. StatusOf(o) = Stages[8]
    BY <2>4, <2>6, FirstStage
  <2>8. Stages[8] = "none"
    BY DEF Stages
  <2>9. CarrierOf(o) = None
    BY <2>1 DEF CarrierOf
  <2> QED BY <2>7, <2>8, <2>9
<1> QED BY <1>1 DEF Lifecycle!Init

(* OrderFlow implements OrderLifecycle, but for the fairness of it: with   *)
(* one order for each customer, an order goes through its life one step at *)
(* a time and never back, for any number of customers, riders and          *)
(* restaurants, however their messages interleave and whichever of them is *)
(* killed and started again.                                               *)
THEOREM LifecycleCorrect ==
    ASSUME MaxOrders = 1
    PROVE  Spec => Lifecycle!Init /\ [][Lifecycle!Next]_(Lifecycle!vars)
<1>1. Init => StoryInv
  BY StoryInit
<1>2. TypeInv /\ AuthInv /\ OnceInv /\ StoryInv /\ [Next]_vars => StoryInv'
  BY StoryStep
<1>3. TypeInv /\ OnceInv /\ StoryInv /\ [Next]_vars
        => [Lifecycle!Next]_(Lifecycle!vars)
  BY MapStep
<1> QED BY <1>1, <1>2, <1>3, MapInit, SpecTypeInv, SpecAuthInv, SpecOnceInv, PTL
    DEF Spec
=============================================================================
