-------------------------- MODULE OrderOnceProofs ---------------------------
(***************************************************************************)
(* An order is gone through once: the request for it is at one place at a  *)
(* time until the order is entered in the table, and never comes back.     *)
(* From this follows, for any number of clients, orders and restarts, what *)
(* OrderFlow says of riders and of orders that are over.                   *)
(***************************************************************************)
EXTENDS OrderFlowProofs

Requests == {"AuthorizePayment", "PaymentAuthorized", "PaymentDenied",
             "OrderRequest"}

(* Among the items of s, which are of several types, there is one of the   *)
(* types for the order p of customer c; there are no two for one order.    *)
Held(s, types, c, p) ==
    \E i \in 1 .. Len(s) :
        s[i].type \in types /\ s[i].customer = c /\ s[i].price = p

Distinct(s, types) ==
    \A i, j \in 1 .. Len(s) :
        /\ s[i].type \in types /\ s[j].type \in types
        /\ s[i].customer = s[j].customer /\ s[i].price = s[j].price
        => i = j

Pending(c, p) == Held(mailbox, Requests, c, p)
Sent(c, p)    == Held(outbox[Gateway], {"AuthorizePayment"}, c, p)
Due(c, p)     == Held(outbox[Gateway], {"ExecutePayment"}, c, p)

InProcess(c, p) == /\ orders_in_process[c] # None
                   /\ orders_in_process[c].order_price = p
Given(c, p)     == \E r \in Riders : <<r, c, p>> \in assigned
Settled(c, p)   == <<"charged", c, p>> \in log \/ <<"refused", c, p>> \in log

(* Where an order can be, and what that excludes.                          *)
Ledger(c, p) ==
    /\ ~(Pending(c, p) /\ Sent(c, p))
    /\ Pending(c, p) \/ Sent(c, p)
         => ~InProcess(c, p) /\ ~Given(c, p) /\ ~Settled(c, p) /\ ~Due(c, p)
    /\ InProcess(c, p)
         => /\ ~Settled(c, p) /\ ~Due(c, p)
            /\ orders_in_process[c].rider_id = None => ~Given(c, p)
    /\ p > placed[c]
         => /\ ~Pending(c, p) /\ ~Sent(c, p) /\ ~InProcess(c, p)
            /\ ~Given(c, p) /\ ~Settled(c, p) /\ ~Due(c, p)

OnceInv ==
    /\ Distinct(mailbox, Requests)
    /\ Distinct(outbox[Gateway], {"AuthorizePayment"})
    /\ \A c \in Customers, p \in Prices : Ledger(c, p)
    /\ OneRiderPerOrder

----------------------------------------------------------------------------
(* Sequences of messages and lines.                                        *)

(* What is left when the first item is taken.                              *)
LEMMA HeldTail ==
    ASSUME NEW S, NEW s \in Seq(S), s # <<>>, NEW types
    PROVE  /\ \A c, p : Held(Tail(s), types, c, p) => Held(s, types, c, p)
           /\ Distinct(s, types) => Distinct(Tail(s), types)
           /\ Head(s).type \in types =>
                /\ Held(s, types, Head(s).customer, Head(s).price)
                /\ Distinct(s, types) =>
                     ~Held(Tail(s), types, Head(s).customer, Head(s).price)
<1>1. /\ Len(Tail(s)) = Len(s) - 1 /\ Len(s) \in Nat \ {0} /\ Head(s) = s[1]
      /\ \A i \in 1 .. Len(s) - 1 : Tail(s)[i] = s[i + 1]
  OBVIOUS
<1>2. \A i \in 1 .. Len(Tail(s)) :
          i + 1 \in 1 .. Len(s) /\ Tail(s)[i] = s[i + 1] /\ i + 1 # 1
  BY <1>1
<1>3. 1 \in 1 .. Len(s)
  BY <1>1
<1>4. \A c, p : Held(Tail(s), types, c, p) => Held(s, types, c, p)
  BY <1>2 DEF Held
<1>5. Distinct(s, types) => Distinct(Tail(s), types)
  BY <1>2 DEF Distinct
<1>6. ASSUME Head(s).type \in types
      PROVE  Held(s, types, Head(s).customer, Head(s).price)
  BY <1>1, <1>3, <1>6 DEF Held
<1>7. ASSUME Head(s).type \in types, Distinct(s, types),
             Held(Tail(s), types, Head(s).customer, Head(s).price)
      PROVE  FALSE
  <2>1. PICK i \in 1 .. Len(Tail(s)) :
            /\ Tail(s)[i].type \in types
            /\ Tail(s)[i].customer = Head(s).customer
            /\ Tail(s)[i].price = Head(s).price
    BY <1>7 DEF Held
  <2> QED BY <1>1, <1>2, <1>3, <1>7, <2>1 DEF Distinct
<1> QED BY <1>4, <1>5, <1>6, <1>7

(* What there is when an item is appended.                                 *)
LEMMA HeldAppend ==
    ASSUME NEW S, NEW s \in Seq(S), NEW m, NEW types
    PROVE  /\ \A c, p : Held(Append(s, m), types, c, p) =>
                 \/ Held(s, types, c, p)
                 \/ m.type \in types /\ m.customer = c /\ m.price = p
           /\ /\ Distinct(s, types)
              /\ m.type \in types => ~Held(s, types, m.customer, m.price)
              => Distinct(Append(s, m), types)
<1>1. /\ Len(Append(s, m)) = Len(s) + 1 /\ Len(s) \in Nat
      /\ \A i \in 1 .. Len(s) : Append(s, m)[i] = s[i]
      /\ Append(s, m)[Len(s) + 1] = m
  OBVIOUS
<1>2. \A i \in 1 .. Len(Append(s, m)) :
          i \in 1 .. Len(s) \/ i = Len(s) + 1
  BY <1>1
<1>3. \A c, p : Held(Append(s, m), types, c, p) =>
          \/ Held(s, types, c, p)
          \/ m.type \in types /\ m.customer = c /\ m.price = p
  BY <1>1, <1>2 DEF Held
<1>4. ASSUME Distinct(s, types),
             m.type \in types => ~Held(s, types, m.customer, m.price)
      PROVE  Distinct(Append(s, m), types)
  BY <1>1, <1>2, <1>4 DEF Held, Distinct
<1> QED BY <1>3, <1>4

(* The fields of a request, and of an item of another type.                *)
LEMMA RequestFields ==
    ASSUME NEW m \in Message, m.type \in Requests
    PROVE  /\ m.customer \in Customers /\ m.price \in Prices
           /\ \A t : /\ [m EXCEPT !.type = t].type = t
                     /\ [m EXCEPT !.type = t].customer = m.customer
                     /\ [m EXCEPT !.type = t].price = m.price
<1>1. m \in [type : Requests, customer : Customers, price : Prices,
             restaurant : Restaurants]
  BY MessageFields DEF Requests
<1> QED BY <1>1

----------------------------------------------------------------------------
(* The ledger of an order of which nothing new is said.                    *)
LEMMA LedgerKept ==
    ASSUME TypeInv, NEW c \in Customers, NEW p \in Prices, Ledger(c, p),
           Pending(c, p)' => Pending(c, p), Sent(c, p)' => Sent(c, p),
           Due(c, p)' => Due(c, p),
           \/ orders_in_process'[c] = None
           \/ orders_in_process'[c] = orders_in_process[c],
           assigned' = assigned,
           Settled(c, p)' => Settled(c, p),
           placed' = placed
    PROVE  Ledger(c, p)'
BY DEF Ledger, InProcess, Given

(* The mailbox and the lines to the payment system are typed.              *)
LEMMA BoxTypes ==
    ASSUME TypeInv
    PROVE  /\ mailbox \in Seq(Message) /\ outbox[Gateway] \in Seq(Line)
           /\ outbox \in Boxes /\ Gateway \in Clients
           /\ orders_in_process \in [Customers \cup Riders -> Entries]
           /\ placed \in [Customers -> 0 .. MaxOrders]
           /\ MaxOrders \in Nat
BY OrderFlowAssumption DEF TypeInv, TypeOK, Boxes, Clients

(* A step that takes a message or none, appends none of a request, and     *)
(* does not assign, enter or settle an order.                              *)
LEMMA OnceAside ==
    ASSUME TypeInv, OnceInv,
           NEW box, box = mailbox \/ (mailbox # <<>> /\ box = Tail(mailbox)),
           \/ mailbox' = box
           \/ \E n : n.type \notin Requests /\ mailbox' = Append(box, n),
           outbox'[Gateway] \in {outbox[Gateway], <<>>},
           \A c \in Customers : \/ orders_in_process'[c] = None
                                \/ orders_in_process'[c] = orders_in_process[c],
           assigned' = assigned,
           \A c, p : Settled(c, p)' => Settled(c, p),
           placed' = placed
    PROVE  OnceInv'
<1>1. /\ box \in Seq(Message)
      /\ Distinct(box, Requests)
      /\ \A c, p : Held(box, Requests, c, p) => Held(mailbox, Requests, c, p)
  <2>1. mailbox \in Seq(Message)
    BY BoxTypes
  <2>2. CASE box = mailbox
    BY <2>1, <2>2 DEF OnceInv
  <2>3. CASE mailbox # <<>> /\ box = Tail(mailbox)
    <3>1. Tail(mailbox) \in Seq(Message)
      BY <2>1, <2>3
    <3> QED BY <2>1, <2>3, <3>1, HeldTail DEF OnceInv
  <2> QED BY <2>2, <2>3
<1>3. /\ Distinct(mailbox', Requests)
      /\ \A c, p : Held(mailbox', Requests, c, p) => Held(mailbox, Requests, c, p)
  <2>1. CASE mailbox' = box
    BY <1>1, <2>1
  <2>2. ASSUME NEW n, n.type \notin Requests, mailbox' = Append(box, n)
        PROVE  <1>3!:
    BY <1>1, <2>2, HeldAppend
  <2> QED BY <2>1, <2>2
<1>4. /\ Distinct(outbox'[Gateway], {"AuthorizePayment"})
      /\ \A types, c, p : Held(outbox'[Gateway], types, c, p)
                            => Held(outbox[Gateway], types, c, p)
  <2>1. CASE outbox'[Gateway] = outbox[Gateway]
    BY <2>1 DEF OnceInv
  <2>2. CASE outbox'[Gateway] = <<>>
    BY <2>2 DEF Held, Distinct
  <2> QED BY <2>1, <2>2
<1>5. ASSUME NEW c \in Customers, NEW p \in Prices PROVE Ledger(c, p)'
  <2>1. /\ Pending(c, p)' => Pending(c, p)
        /\ Sent(c, p)' => Sent(c, p)
        /\ Due(c, p)' => Due(c, p)
    BY <1>3, <1>4 DEF Pending, Sent, Due
  <2> QED BY <2>1, LedgerKept DEF OnceInv
<1>6. OneRiderPerOrder'
  BY DEF OnceInv, OneRiderPerOrder
<1> QED BY <1>3, <1>4, <1>5, <1>6 DEF OnceInv

----------------------------------------------------------------------------
(* The handlers of the ConnectionManager.                                  *)

(* Only few of them enter or assign an order, or refuse one.               *)
LEMMA HandleQuiet ==
    ASSUME TypeInv, Handle
    PROVE  LET m == Head(mailbox)
           IN  /\ m.type \notin {"OrderRequest", "DeliveryOfferAccepted"} =>
                    \A c \in Customers :
                        \/ orders_in_process'[c] = None
                        \/ orders_in_process'[c] = orders_in_process[c]
               /\ m.type # "DeliveryOfferAccepted" => assigned' = assigned
               /\ m.type \notin {"AuthorizePayment", "PaymentDenied"} =>
                    log' = log
               /\ placed' = placed
<1> DEFINE m == Head(mailbox)
           Table == \A c \in Customers :
                        \/ orders_in_process'[c] = None
                        \/ orders_in_process'[c] = orders_in_process[c]
<1>1. m \in Message /\ placed' = placed
  BY BoxTypes DEF Handle, clientVars
<1>2. ASSUME orders_in_process' = orders_in_process
      PROVE  Table
  BY <1>2
<1>3. ASSUME NEW d, orders_in_process' = [orders_in_process EXCEPT ![d] = None]
      PROVE  Table
  BY <1>3, BoxTypes
<1>4. CASE \/ HandleRegisterCustomer(m) \/ HandleRegisterRider(m)
           \/ HandleRegisterRestaurant(m) \/ HandleRegisterPaymentSystem(m)
           \/ SendRestaurantList(m) \/ PaymentAuthorized(m) \/ OrderReady(m)
           \/ FindRider(m)
  BY <1>1, <1>4 DEF HandleRegisterCustomer, HandleRegisterRider,
     HandleRegisterRestaurant, HandleRegisterPaymentSystem, SendRestaurantList,
     PaymentAuthorized, OrderReady, FindRider, orderVars, history
<1>5. CASE AuthorizePayment(m) \/ PaymentDenied(m)
  <2>1. /\ m.type \in {"AuthorizePayment", "PaymentDenied"}
        /\ orders_in_process' = orders_in_process /\ assigned' = assigned
    BY <1>5 DEF AuthorizePayment, PaymentDenied, orderVars
  <2> QED BY <1>1, <2>1
<1>6. CASE OrderCancelled(m) \/ DeliveryDone(m) \/ PaymentExecuted(m)
  <2>1. /\ \/ orders_in_process' = orders_in_process
           \/ orders_in_process' =
                  [orders_in_process EXCEPT ![m.customer] = None]
        /\ log' = log /\ assigned' = assigned
    BY <1>6 DEF OrderCancelled, DeliveryDone, PaymentExecuted, history
  <2>2. Table
    BY <1>2, <1>3, <2>1
  <2> QED BY <1>1, <2>1, <2>2
<1>7. CASE OrderRequest(m)
  BY <1>1, <1>7 DEF OrderRequest, history
<1>8. CASE DeliveryOfferAccepted(m)
  BY <1>1, <1>8 DEF DeliveryOfferAccepted
<1> QED BY <1>4, <1>5, <1>6, <1>7, <1>8 DEF Handle

(* A payment that is refused for want of a payment system is not asked of  *)
(* it: the line goes to the customer.                                      *)
LEMMA RefusedElsewhere ==
    ASSUME TypeInv, mailbox # <<>>, AuthorizePayment(Head(mailbox))
    PROVE  \/ log' = log
           \/ /\ log' = log \cup {<<"refused", Head(mailbox).customer,
                                    Head(mailbox).price>>}
              /\ outbox'[Gateway] = outbox[Gateway]
<1> DEFINE m == Head(mailbox)
           box == PostCustomer(m.customer, [type |-> "FinishDelivery"])
<1>1. CASE payment_system # 0
  BY <1>1 DEF AuthorizePayment
<1>2. CASE payment_system = 0
  <2>1. m.customer \in Customers /\ m.type = "AuthorizePayment"
    BY BoxTypes, RequestFields DEF AuthorizePayment, Requests
  <2>2. m.customer \in Clients /\ m.customer # Gateway
    BY <2>1, OrderFlowAssumption DEF Clients
  <2>3. [type |-> "FinishDelivery"] \in Line
    BY DEF Line
  <2>4. box \in Boxes /\ box[Gateway] = outbox[Gateway]
    BY <2>2, <2>3, BoxTypes, PostType, PostElsewhere DEF PostCustomer
  <2>5. process_pending_requests(box, rider_connections)
    BY <1>2 DEF AuthorizePayment
  <2> HIDE DEF box
  <2>6. outbox'[Gateway] = outbox[Gateway]
    BY <2>4, <2>5, ProcessElsewhere
  <2> QED BY <1>2, <2>6 DEF AuthorizePayment, Note
<1> QED BY <1>1, <1>2

(* The handlers of requests, acceptances and deliveries, by the type of    *)
(* the message they take.                                                  *)
LEMMA HandleByType ==
    ASSUME Handle
    PROVE  LET m == Head(mailbox)
           IN  /\ m.type = "AuthorizePayment" =>
                    AuthorizePayment(m) /\ mailbox' = Tail(mailbox)
               /\ m.type = "PaymentDenied" =>
                    PaymentDenied(m) /\ mailbox' = Tail(mailbox)
               /\ m.type = "OrderRequest" =>
                    OrderRequest(m) /\ mailbox' = Tail(mailbox)
               /\ m.type = "DeliveryOfferAccepted" =>
                    DeliveryOfferAccepted(m) /\ mailbox' = Tail(mailbox)
               /\ m.type = "DeliveryDone" =>
                    DeliveryDone(m) /\ mailbox' = Tail(mailbox)
BY DEF Handle, HandleRegisterCustomer, HandleRegisterRider,
   HandleRegisterRestaurant, HandleRegisterPaymentSystem, SendRestaurantList,
   AuthorizePayment, PaymentAuthorized, PaymentDenied, OrderRequest, OrderReady,
   OrderCancelled, FindRider, DeliveryOfferAccepted, DeliveryDone,
   PaymentExecuted

(* A message is taken, and a request with it from the mailbox.             *)
LEMMA RequestTaken ==
    ASSUME TypeInv, OnceInv, mailbox # <<>>, Head(mailbox).type \in Requests
    PROVE  LET m == Head(mailbox)
           IN  /\ m \in Message
               /\ Distinct(Tail(mailbox), Requests)
               /\ \A c, p : Held(Tail(mailbox), Requests, c, p) => Pending(c, p)
               /\ \E a \in Customers, q \in Prices :
                    /\ a = m.customer /\ q = m.price
                    /\ Pending(a, q) /\ ~Held(Tail(mailbox), Requests, a, q)
<1> DEFINE m == Head(mailbox)
<1>1. mailbox \in Seq(Message) /\ m \in Message
  BY BoxTypes
<1>2. m.customer \in Customers /\ m.price \in Prices
  BY <1>1, RequestFields
<1>3. /\ Distinct(Tail(mailbox), Requests)
      /\ \A c, p : Held(Tail(mailbox), Requests, c, p) =>
             Held(mailbox, Requests, c, p)
      /\ Held(mailbox, Requests, m.customer, m.price)
      /\ ~Held(Tail(mailbox), Requests, m.customer, m.price)
  BY <1>1, HeldTail DEF OnceInv
<1> QED BY <1>1, <1>2, <1>3 DEF Pending

(* A line is written to the payment system.                                *)
LEMMA LineWritten ==
    ASSUME TypeInv, OnceInv, NEW c, NEW p, NEW type,
           NEW line, line.type = type, line.customer = c, line.price = p,
           outbox'[Gateway] = Append(outbox[Gateway], line),
           ~Sent(c, p)
    PROVE  /\ Distinct(outbox'[Gateway], {"AuthorizePayment"})
           /\ \A d, q : /\ Sent(d, q)' => \/ Sent(d, q)
                                          \/ /\ type = "AuthorizePayment"
                                             /\ d = c /\ q = p
                        /\ Due(d, q)' => \/ Due(d, q)
                                         \/ /\ type = "ExecutePayment"
                                            /\ d = c /\ q = p
<1> DEFINE lines == outbox[Gateway]
<1>1. lines \in Seq(Line)
  BY BoxTypes
<1>2. Distinct(lines, {"AuthorizePayment"})
  BY DEF OnceInv
<1>3. ~Held(lines, {"AuthorizePayment"}, line.customer, line.price)
  BY DEF Sent
<1> HIDE DEF lines
<1>4. /\ Distinct(Append(lines, line), {"AuthorizePayment"})
      /\ \A d, q : Held(Append(lines, line), {"AuthorizePayment"}, d, q) =>
             \/ Held(lines, {"AuthorizePayment"}, d, q)
             \/ line.type = "AuthorizePayment" /\ line.customer = d /\ line.price = q
  BY <1>1, <1>2, <1>3, HeldAppend
<1>5. \A d, q : Held(Append(lines, line), {"ExecutePayment"}, d, q) =>
             \/ Held(lines, {"ExecutePayment"}, d, q)
             \/ line.type = "ExecutePayment" /\ line.customer = d /\ line.price = q
  BY <1>1, HeldAppend
<1> QED BY <1>4, <1>5 DEF lines, Sent, Due

(* AuthorizePayment: the request goes on as a line, or is refused.         *)
LEMMA OnceAuthorizePayment ==
    ASSUME TypeInv, OnceInv, Handle, Head(mailbox).type = "AuthorizePayment"
    PROVE  OnceInv'
<1> DEFINE m == Head(mailbox)
<1>1. /\ mailbox # <<>> /\ m.type \in Requests
      /\ AuthorizePayment(m) /\ mailbox' = Tail(mailbox)
  BY HandleByType DEF Handle, Requests
<1>2. PICK a \in Customers, q \in Prices :
          /\ a = m.customer /\ q = m.price
          /\ Pending(a, q) /\ ~Held(Tail(mailbox), Requests, a, q)
  BY <1>1, RequestTaken
<1>3. /\ ~Pending(a, q)' /\ Distinct(mailbox', Requests)
      /\ \A c, p : Pending(c, p)' => Pending(c, p)
  BY <1>1, <1>2, RequestTaken DEF Pending
<1>4. Ledger(a, q)
  BY DEF OnceInv
<1>5. /\ assigned' = assigned /\ placed' = placed
      /\ \A c \in Customers : \/ orders_in_process'[c] = None
                              \/ orders_in_process'[c] = orders_in_process[c]
  BY HandleQuiet
<1>6. \/ outbox'[Gateway] = outbox[Gateway]
      \/ log' = log /\ outbox'[Gateway] = Append(outbox[Gateway], m)
  BY <1>1, HandleLines, RefusedElsewhere
<1>7. /\ Distinct(outbox'[Gateway], {"AuthorizePayment"})
      /\ \A c, p : /\ Due(c, p)' => Due(c, p)
                   /\ Sent(c, p)' => Sent(c, p) \/ (c = a /\ p = q)
  <2>1. CASE outbox'[Gateway] = outbox[Gateway]
    BY <2>1 DEF OnceInv, Due, Sent
  <2>2. CASE outbox'[Gateway] = Append(outbox[Gateway], m)
    <3>1. ~Sent(a, q)
      BY <1>2, <1>4 DEF Ledger
    <3> QED BY <1>2, <2>2, <3>1, LineWritten
  <2> QED BY <1>6, <2>1, <2>2
<1>8. \A c, p : Settled(c, p)' => Settled(c, p) \/ (c = a /\ p = q)
  BY <1>1, <1>2, RefusedElsewhere DEF Settled
<1>9. ASSUME NEW c \in Customers, NEW p \in Prices PROVE Ledger(c, p)'
  <2>1. CASE c = a /\ p = q
    <3>1. /\ ~Sent(c, p) /\ ~InProcess(c, p) /\ ~Given(c, p)
          /\ ~Settled(c, p) /\ ~Due(c, p) /\ ~(p > placed[c])
      BY <1>2, <1>4, <2>1 DEF Ledger
    <3>2. ~Pending(c, p)' /\ ~Due(c, p)'
      BY <1>3, <1>7, <2>1, <3>1
    <3>3. ~InProcess(c, p)' /\ ~Given(c, p)'
      BY <1>5, <3>1 DEF InProcess, Given
    <3>4. ~Sent(c, p)' \/ ~Settled(c, p)'
      <4>1. CASE outbox'[Gateway] = outbox[Gateway]
        BY <3>1, <4>1 DEF Sent
      <4>2. CASE log' = log
        BY <3>1, <4>2 DEF Settled
      <4> QED BY <1>6, <4>1, <4>2
    <3> QED BY <1>5, <3>1, <3>2, <3>3, <3>4 DEF Ledger
  <2>2. CASE ~(c = a /\ p = q)
    BY <1>3, <1>5, <1>7, <1>8, <2>2, LedgerKept DEF OnceInv
  <2> QED BY <2>1, <2>2
<1>10. OneRiderPerOrder'
  BY <1>5 DEF OnceInv, OneRiderPerOrder
<1> QED BY <1>3, <1>7, <1>9, <1>10 DEF OnceInv

(* PaymentDenied: the request is over.                                     *)
LEMMA OncePaymentDenied ==
    ASSUME TypeInv, OnceInv, Handle, Head(mailbox).type = "PaymentDenied"
    PROVE  OnceInv'
<1> DEFINE m == Head(mailbox)
<1>1. /\ mailbox # <<>> /\ m.type \in Requests
      /\ PaymentDenied(m) /\ mailbox' = Tail(mailbox)
  BY HandleByType DEF Handle, Requests
<1>2. PICK a \in Customers, q \in Prices :
          /\ a = m.customer /\ q = m.price
          /\ Pending(a, q) /\ ~Held(Tail(mailbox), Requests, a, q)
  BY <1>1, RequestTaken
<1>3. /\ ~Pending(a, q)' /\ Distinct(mailbox', Requests)
      /\ \A c, p : Pending(c, p)' => Pending(c, p)
  BY <1>1, <1>2, RequestTaken DEF Pending
<1>4. Ledger(a, q)
  BY DEF OnceInv
<1>5. /\ assigned' = assigned /\ placed' = placed
      /\ \A c \in Customers : \/ orders_in_process'[c] = None
                              \/ orders_in_process'[c] = orders_in_process[c]
  BY HandleQuiet
<1>6. outbox'[Gateway] = outbox[Gateway]
  BY HandleLines
<1>7. \A c, p : (Sent(c, p)' <=> Sent(c, p)) /\ (Due(c, p)' <=> Due(c, p))
  BY <1>6 DEF Sent, Due
<1>8. \A c, p : Settled(c, p)' => Settled(c, p) \/ (c = a /\ p = q)
  BY <1>1, <1>2 DEF Settled, PaymentDenied, Note
<1>9. ASSUME NEW c \in Customers, NEW p \in Prices PROVE Ledger(c, p)'
  <2>1. CASE c = a /\ p = q
    <3>1. /\ ~Sent(c, p) /\ ~InProcess(c, p) /\ ~Given(c, p) /\ ~Due(c, p)
          /\ ~(p > placed[c])
      BY <1>2, <1>4, <2>1 DEF Ledger
    <3>2. ~Pending(c, p)' /\ ~Due(c, p)' /\ ~Sent(c, p)'
      BY <1>3, <1>7, <2>1, <3>1
    <3>3. ~InProcess(c, p)' /\ ~Given(c, p)'
      BY <1>5, <3>1 DEF InProcess, Given
    <3> QED BY <1>5, <3>1, <3>2, <3>3 DEF Ledger
  <2>2. CASE ~(c = a /\ p = q)
    BY <1>3, <1>5, <1>7, <1>8, <2>2, LedgerKept DEF OnceInv
  <2> QED BY <2>1, <2>2
<1>10. OneRiderPerOrder'
  BY <1>5 DEF OnceInv, OneRiderPerOrder
<1> QED BY <1>3, <1>6, <1>9, <1>10 DEF OnceInv

(* PaymentAuthorized: the request stays one, or is dropped.                *)
LEMMA OncePaymentAuthorized ==
    ASSUME TypeInv, OnceInv, Handle, Head(mailbox).type = "PaymentAuthorized"
    PROVE  OnceInv'
<1> DEFINE m == Head(mailbox)
<1>1. mailbox # <<>> /\ m.type \in Requests
  BY DEF Handle, Requests
<1>2. /\ assigned' = assigned /\ placed' = placed /\ log' = log
      /\ \A c \in Customers : \/ orders_in_process'[c] = None
                              \/ orders_in_process'[c] = orders_in_process[c]
  BY HandleQuiet
<1>3. outbox'[Gateway] = outbox[Gateway]
  BY HandleLines
<1>4. \A c, p : Settled(c, p)' => Settled(c, p)
  BY <1>2 DEF Settled
<1>5. CASE \/ mailbox' = Tail(mailbox)
           \/ \E n : /\ n.type \in {"SendRestaurantList", "FindRider"}
                     /\ mailbox' = Append(Tail(mailbox), n)
  <2>1. \/ mailbox' = Tail(mailbox)
        \/ \E n : n.type \notin Requests /\ mailbox' = Append(Tail(mailbox), n)
    BY <1>5 DEF Requests
  <2> QED BY <1>1, <1>2, <1>3, <1>4, <2>1, OnceAside
<1>6. CASE mailbox' = Append(Tail(mailbox), [m EXCEPT !.type = "OrderRequest"])
  <2>1. PICK a \in Customers, q \in Prices :
          /\ a = m.customer /\ q = m.price
          /\ Pending(a, q) /\ ~Held(Tail(mailbox), Requests, a, q)
    BY <1>1, RequestTaken
  <2>2. PICK n : /\ n = [m EXCEPT !.type = "OrderRequest"]
                 /\ n.customer = a /\ n.price = q
    BY <1>1, <2>1, RequestFields, RequestTaken
  <2> DEFINE rest == Tail(mailbox)
  <2>3. /\ rest \in Seq(Message) /\ Distinct(rest, Requests)
        /\ \A c, p : Held(rest, Requests, c, p) => Pending(c, p)
        /\ ~Held(rest, Requests, n.customer, n.price)
        /\ mailbox' = Append(rest, n)
    BY <1>1, <1>6, <2>1, <2>2, BoxTypes, RequestTaken
  <2> HIDE DEF rest
  <2>4. Distinct(Append(rest, n), Requests)
    BY <2>3, HeldAppend
  <2>5. \A c, p : Pending(c, p)' => Pending(c, p)
    <3>1. \A c, p : Held(Append(rest, n), Requests, c, p) =>
              Held(rest, Requests, c, p) \/ (c = a /\ p = q)
      BY <2>2, <2>3, HeldAppend
    <3> QED BY <2>1, <2>3, <3>1 DEF Pending
  <2>6. \A c, p : (Sent(c, p)' <=> Sent(c, p)) /\ (Due(c, p)' <=> Due(c, p))
    BY <1>3 DEF Sent, Due
  <2>7. \A c \in Customers, p \in Prices : Ledger(c, p)'
    BY <1>2, <1>4, <2>5, <2>6, LedgerKept DEF OnceInv
  <2>8. OneRiderPerOrder'
    BY <1>2 DEF OnceInv, OneRiderPerOrder
  <2> QED BY <1>3, <2>3, <2>4, <2>7, <2>8 DEF OnceInv
<1> QED BY <1>5, <1>6, HandleMail

(* OrderRequest enters the order in the table, or does nothing.            *)
LEMMA RequestEntered ==
    ASSUME TypeInv, Handle, Head(mailbox).type = "OrderRequest"
    PROVE  LET m == Head(mailbox)
           IN  \A c \in Customers :
                 \/ orders_in_process'[c] = orders_in_process[c]
                 \/ /\ c = m.customer
                    /\ orders_in_process'[c].order_price = m.price
                    /\ orders_in_process'[c].rider_id = None
<1> DEFINE m == Head(mailbox)
<1>1. OrderRequest(m)
  BY HandleByType
<1>2. CASE orders_in_process' = orders_in_process
  BY <1>2
<1>3. CASE orders_in_process' =
             [orders_in_process EXCEPT ![m.customer] = NewOrder(m)]
  <2>1. NewOrder(m).order_price = m.price /\ NewOrder(m).rider_id = None
    BY DEF NewOrder
  <2> HIDE DEF m
  <2> QED BY <1>3, <2>1, BoxTypes DEF m
<1> QED BY <1>1, <1>2, <1>3 DEF OrderRequest, orderVars

(* OrderRequest: what was a request is an entry of the table.              *)
LEMMA OnceOrderRequest ==
    ASSUME TypeInv, OnceInv, Handle, Head(mailbox).type = "OrderRequest"
    PROVE  OnceInv'
<1> DEFINE m == Head(mailbox)
<1>1. /\ mailbox # <<>> /\ m.type \in Requests /\ mailbox' = Tail(mailbox)
  BY HandleByType DEF Handle, Requests
<1>2. PICK a \in Customers, q \in Prices :
          /\ a = m.customer /\ q = m.price
          /\ Pending(a, q) /\ ~Held(Tail(mailbox), Requests, a, q)
  BY <1>1, RequestTaken
<1>3. /\ ~Pending(a, q)' /\ Distinct(mailbox', Requests)
      /\ \A c, p : Pending(c, p)' => Pending(c, p)
  BY <1>1, <1>2, RequestTaken DEF Pending
<1>4. Ledger(a, q)
  BY DEF OnceInv
<1>5. assigned' = assigned /\ placed' = placed /\ log' = log
  BY HandleQuiet
<1>6. outbox'[Gateway] = outbox[Gateway]
  BY HandleLines
<1>7. \A c, p : /\ Sent(c, p)' <=> Sent(c, p)
                /\ Due(c, p)' <=> Due(c, p)
                /\ Settled(c, p)' <=> Settled(c, p)
                /\ Given(c, p)' <=> Given(c, p)
  BY <1>5, <1>6 DEF Sent, Due, Settled, Given
<1>8. ASSUME NEW c \in Customers, NEW p \in Prices PROVE Ledger(c, p)'
  <2>1. CASE orders_in_process'[c] = orders_in_process[c]
    BY <1>3, <1>5, <1>7, <2>1, LedgerKept DEF OnceInv
  <2>2. CASE /\ c = a /\ orders_in_process'[c].order_price = q
             /\ orders_in_process'[c].rider_id = None
    <3>1. CASE p = q
      <4>1. /\ ~Sent(c, p) /\ ~Given(c, p) /\ ~Due(c, p) /\ ~Settled(c, p)
            /\ ~(p > placed[c])
        BY <1>2, <1>4, <2>2, <3>1 DEF Ledger
      <4>2. ~Pending(c, p)'
        BY <1>3, <2>2, <3>1
      <4> QED BY <1>5, <1>7, <4>1, <4>2 DEF Ledger
    <3>2. CASE p # q
      <4>1. ~InProcess(c, p)'
        BY <2>2, <3>2 DEF InProcess
      <4>2. Ledger(c, p)
        BY DEF OnceInv
      <4> QED BY <1>3, <1>5, <1>7, <4>1, <4>2 DEF Ledger
    <3> QED BY <3>1, <3>2
  <2> QED BY <1>2, <2>1, <2>2, RequestEntered
<1>9. OneRiderPerOrder'
  BY <1>5 DEF OnceInv, OneRiderPerOrder
<1> QED BY <1>3, <1>6, <1>8, <1>9 DEF OnceInv

(* DeliveryDone: the entry becomes a line to the payment system.           *)
LEMMA OnceDeliveryDone ==
    ASSUME TypeInv, OnceInv, Handle, Head(mailbox).type = "DeliveryDone"
    PROVE  OnceInv'
<1> DEFINE m == Head(mailbox)
<1>1. mailbox # <<>> /\ mailbox' = Tail(mailbox) /\ DeliveryDone(m)
  BY HandleByType DEF Handle
<1>2. m.customer \in Customers
  BY <1>1, BoxTypes, MessageFields DEF DeliveryDone
<1>3. /\ assigned' = assigned /\ placed' = placed /\ log' = log
      /\ \A c \in Customers : \/ orders_in_process'[c] = None
                              \/ orders_in_process'[c] = orders_in_process[c]
  BY HandleQuiet
<1>4. \A c, p : Settled(c, p)' <=> Settled(c, p)
  BY <1>3 DEF Settled
<1>5. CASE outbox'[Gateway] = outbox[Gateway]
  BY <1>1, <1>3, <1>4, <1>5, OnceAside
<1>6. CASE /\ orders_in_process[m.customer] # None
           /\ outbox'[Gateway] = Append(outbox[Gateway],
                  [type |-> "ExecutePayment", customer |-> m.customer,
                   price |-> orders_in_process[m.customer].order_price])
  <2>1. PICK a \in Customers, q \in Prices :
            /\ a = m.customer /\ q = orders_in_process[a].order_price
            /\ orders_in_process[a] # None
    BY <1>2, <1>6 DEF TypeInv
  <2>2. InProcess(a, q) /\ Ledger(a, q)
    BY <2>1 DEF InProcess, OnceInv
  <2>3. /\ ~Pending(a, q) /\ ~Sent(a, q) /\ ~Settled(a, q) /\ ~(q > placed[a])
    BY <2>2 DEF Ledger
  <2>4. /\ Distinct(outbox'[Gateway], {"AuthorizePayment"})
        /\ \A c, p : /\ Sent(c, p)' => Sent(c, p)
                     /\ Due(c, p)' => Due(c, p) \/ (c = a /\ p = q)
    <3>1. PICK line : /\ line.type = "ExecutePayment" /\ line.customer = a
                      /\ line.price = q
                      /\ outbox'[Gateway] = Append(outbox[Gateway], line)
      BY <1>6, <2>1
    <3> QED BY <2>3, <3>1, LineWritten
  <2>5. /\ Distinct(mailbox', Requests)
        /\ \A c, p : Pending(c, p)' => Pending(c, p)
    <3>1. mailbox \in Seq(Message) /\ Distinct(mailbox, Requests)
      BY BoxTypes DEF OnceInv
    <3> QED BY <1>1, <3>1, HeldTail DEF Pending
  <2>6. orders_in_process'[a] = None
    <3>1. orders_in_process' = [orders_in_process EXCEPT ![a] = None]
      BY <1>1, <1>6, <2>1 DEF DeliveryDone
    <3> QED BY <3>1, BoxTypes
  <2>7. ASSUME NEW c \in Customers, NEW p \in Prices PROVE Ledger(c, p)'
    <3>1. CASE c = a /\ p = q
      <4>1. ~InProcess(c, p)'
        BY <2>6, <3>1 DEF InProcess
      <4>2. ~Pending(c, p)' /\ ~Sent(c, p)' /\ ~(p > placed[c])
        BY <2>3, <2>4, <2>5, <3>1
      <4> QED BY <1>3, <4>1, <4>2 DEF Ledger
    <3>2. CASE ~(c = a /\ p = q)
      BY <1>3, <1>4, <2>4, <2>5, <3>2, LedgerKept DEF OnceInv
    <3> QED BY <3>1, <3>2
  <2>8. OneRiderPerOrder'
    BY <1>3 DEF OnceInv, OneRiderPerOrder
  <2> QED BY <2>4, <2>5, <2>7, <2>8 DEF OnceInv
<1> QED BY <1>5, <1>6, HandleLines

(* DeliveryOfferAccepted gives the rider an order that has none, or leaves *)
(* the orders of the customers as they are.                                *)
LEMMA OfferAccepted ==
    ASSUME TypeInv, Handle, Head(mailbox).type = "DeliveryOfferAccepted"
    PROVE  \/ /\ assigned' = assigned
              /\ \A c \in Customers :
                    orders_in_process'[c] = orders_in_process[c]
           \/ \E a \in Customers, r \in Riders, q \in Prices :
                /\ a = Head(mailbox).customer
                /\ InProcess(a, q) /\ orders_in_process[a].rider_id = None
                /\ assigned' = assigned \cup {<<r, a, q>>}
                /\ orders_in_process'[a].order_price = q
                /\ orders_in_process'[a].rider_id = r
                /\ \A c \in Customers \ {a} :
                      orders_in_process'[c] = orders_in_process[c]
<1> DEFINE m == Head(mailbox)
           order == orders_in_process[m.customer]
           noted == IF customer_connections[m.customer] # 0
                         /\ customers[m.customer] # None
                    THEN [orders_in_process EXCEPT ![m.rider] =
                             [customer_id |-> m.customer,
                              order_price |-> customers[m.customer],
                              rider_id |-> m.rider]]
                    ELSE orders_in_process
<1>1. DeliveryOfferAccepted(m) /\ m \in Message
  BY HandleByType, BoxTypes DEF Handle
<1>2. m.customer \in Customers /\ m.rider \in Riders
  BY <1>1, MessageFields DEF DeliveryOfferAccepted
<1>3. /\ DOMAIN noted = Customers \cup Riders
      /\ \A c \in Customers : noted[c] = orders_in_process[c]
  BY <1>2, BoxTypes, OrderFlowAssumption
<1>4. CASE ~Assignable(order)
  <2>1. orders_in_process' = noted /\ assigned' = assigned
    BY <1>1, <1>4 DEF DeliveryOfferAccepted
  <2> HIDE DEF noted
  <2> QED BY <1>3, <2>1
<1>5. CASE Assignable(order)
  <2>1. PICK a \in Customers, r \in Riders, q \in Prices :
            /\ a = m.customer /\ r = m.rider /\ q = order.order_price
            /\ order # None
    BY <1>2, <1>5 DEF TypeInv, Assignable
  <2>2. /\ orders_in_process' =
               [noted EXCEPT ![a] = [order EXCEPT !.rider_id = r]]
        /\ assigned' = assigned \cup {<<r, a, q>>}
    BY <1>1, <1>5, <2>1 DEF DeliveryOfferAccepted
  <2>3. order \in OrderData
    BY <1>2, <2>1, BoxTypes DEF Entries
  <2>4. /\ [order EXCEPT !.rider_id = r].rider_id = r
        /\ [order EXCEPT !.rider_id = r].order_price = q
    BY <2>1, <2>3 DEF OrderData
  <2>5. InProcess(a, q) /\ orders_in_process[a].rider_id = None
    BY <1>5, <2>1 DEF InProcess, Assignable
  <2> HIDE DEF noted, order
  <2>6. /\ orders_in_process'[a] = [order EXCEPT !.rider_id = r]
        /\ \A c \in Customers \ {a} : orders_in_process'[c] = noted[c]
    BY <1>3, <2>2
  <2> QED BY <1>3, <2>1, <2>2, <2>4, <2>5, <2>6
<1> QED BY <1>4, <1>5

(* DeliveryOfferAccepted: an order that has no rider was never given to    *)
(* one.                                                                    *)
LEMMA OnceOfferAccepted ==
    ASSUME TypeInv, OnceInv, Handle,
           Head(mailbox).type = "DeliveryOfferAccepted"
    PROVE  OnceInv'
<1>1. mailbox # <<>> /\ mailbox' = Tail(mailbox)
  BY HandleByType DEF Handle
<1>2. outbox'[Gateway] = outbox[Gateway]
  BY HandleLines
<1>3. placed' = placed /\ log' = log
  BY HandleQuiet
<1>4. \A c, p : /\ Sent(c, p)' <=> Sent(c, p)
                /\ Due(c, p)' <=> Due(c, p)
                /\ Settled(c, p)' <=> Settled(c, p)
  BY <1>2, <1>3 DEF Sent, Due, Settled
<1>5. CASE /\ assigned' = assigned
           /\ \A c \in Customers : orders_in_process'[c] = orders_in_process[c]
  BY <1>1, <1>2, <1>3, <1>4, <1>5, OnceAside
<1>6. ASSUME NEW a \in Customers, NEW r \in Riders, NEW q \in Prices,
             InProcess(a, q), orders_in_process[a].rider_id = None,
             assigned' = assigned \cup {<<r, a, q>>},
             orders_in_process'[a].order_price = q,
             orders_in_process'[a].rider_id = r,
             \A c \in Customers \ {a} :
                 orders_in_process'[c] = orders_in_process[c]
      PROVE  OnceInv'
  <2>1. Ledger(a, q) /\ r # None
    BY OrderFlowAssumption DEF OnceInv
  <2>2. /\ ~Pending(a, q) /\ ~Sent(a, q) /\ ~Settled(a, q) /\ ~Due(a, q)
        /\ ~Given(a, q) /\ ~(q > placed[a])
    BY <1>6, <2>1 DEF Ledger
  <2>3. /\ Distinct(mailbox', Requests)
        /\ \A c, p : Pending(c, p)' => Pending(c, p)
    <3>1. mailbox \in Seq(Message) /\ Distinct(mailbox, Requests)
      BY BoxTypes DEF OnceInv
    <3> QED BY <1>1, <3>1, HeldTail DEF Pending
  <2>4. \A c, p : Given(c, p)' => Given(c, p) \/ (c = a /\ p = q)
    BY <1>6 DEF Given
  <2>5. ASSUME NEW c \in Customers, NEW p \in Prices PROVE Ledger(c, p)'
    <3>1. Ledger(c, p)
      BY DEF OnceInv
    <3>2. CASE c = a /\ p = q
      BY <1>3, <1>4, <1>6, <2>1, <2>2, <2>3, <3>2 DEF Ledger
    <3>3. CASE c = a /\ p # q
      <4>1. ~InProcess(c, p)'
        BY <1>6, <3>3 DEF InProcess
      <4> QED BY <1>3, <1>4, <2>3, <2>4, <3>1, <3>3, <4>1 DEF Ledger
    <3>4. CASE c # a
      <4>1. /\ InProcess(c, p)' <=> InProcess(c, p)
            /\ orders_in_process'[c] = orders_in_process[c]
        BY <1>6, <3>4 DEF InProcess
      <4> QED BY <1>3, <1>4, <2>3, <2>4, <3>1, <3>4, <4>1 DEF Ledger
    <3> QED BY <3>2, <3>3, <3>4
  <2>6. OneRiderPerOrder'
    <3>1. assigned \subseteq Riders \X Customers \X Prices
      BY DEF TypeInv, TypeOK
    <3>2. \A b \in assigned : b[1] \in Riders /\ b = <<b[1], b[2], b[3]>>
      BY <3>1
    <3>3. \A b \in assigned : ~(b[2] = a /\ b[3] = q)
      BY <2>2, <3>2 DEF Given
    <3> QED BY <1>6, <3>3 DEF OnceInv, OneRiderPerOrder
  <2> QED BY <1>2, <2>3, <2>5, <2>6 DEF OnceInv
<1> QED BY <1>5, <1>6, OfferAccepted

(* The handlers: those of the other messages neither take a request, nor   *)
(* enter, assign or settle an order.                                       *)
LEMMA OnceHandle ==
    ASSUME TypeInv, OnceInv, Handle
    PROVE  OnceInv'
<1> DEFINE m == Head(mailbox)
<1>1. CASE m.type \in Requests
  BY <1>1, OnceAuthorizePayment, OncePaymentAuthorized, OncePaymentDenied,
     OnceOrderRequest DEF Requests
<1>2. CASE m.type \in {"DeliveryOfferAccepted", "DeliveryDone"}
  BY <1>2, OnceOfferAccepted, OnceDeliveryDone
<1>3. CASE m.type \notin Requests \cup {"DeliveryOfferAccepted", "DeliveryDone"}
  <2>1. mailbox # <<>>
    BY DEF Handle
  <2>2. \/ mailbox' = Tail(mailbox)
        \/ \E n : n.type \notin Requests /\ mailbox' = Append(Tail(mailbox), n)
    BY <1>3, HandleMail DEF Requests
  <2>3. /\ assigned' = assigned /\ placed' = placed /\ log' = log
        /\ \A c \in Customers : \/ orders_in_process'[c] = None
                                \/ orders_in_process'[c] = orders_in_process[c]
    BY <1>3, HandleQuiet DEF Requests
  <2>4. outbox'[Gateway] = outbox[Gateway]
    BY <1>3, HandleLines DEF Requests
  <2>5. \A c, p : Settled(c, p)' => Settled(c, p)
    BY <2>3 DEF Settled
  <2> QED BY <2>1, <2>2, <2>3, <2>4, <2>5, OnceAside
<1> QED BY <1>1, <1>2, <1>3

----------------------------------------------------------------------------
(* The clients.                                                            *)

(* A customer that chooses a restaurant places the next of its orders, of  *)
(* which nobody has heard.                                                 *)
LEMMA OnceChoose ==
    ASSUME TypeInv, OnceInv, NEW a \in Customers, ChooseRestaurant(a)
    PROVE  OnceInv'
<1>1. PICK q \in Prices :
          /\ q = placed[a] + 1
          /\ placed' = [placed EXCEPT ![a] = q]
  <2>1. placed[a] \in 0 .. MaxOrders /\ MaxOrders \in Nat
    BY BoxTypes
  <2>2. placed[a] < MaxOrders /\ placed' = [placed EXCEPT ![a] = placed[a] + 1]
    BY DEF ChooseRestaurant
  <2>3. placed[a] + 1 \in Prices
    BY <2>1, <2>2 DEF Prices
  <2> QED BY <2>2, <2>3
<1>2. PICK n : /\ n.customer = a /\ n.price = q
               /\ mailbox' = Append(mailbox, n)
  BY <1>1 DEF ChooseRestaurant
<1>3. outbox'[Gateway] = outbox[Gateway]
  BY BoxTypes, OrderFlowAssumption DEF ChooseRestaurant
<1>4. /\ orders_in_process' = orders_in_process /\ log' = log
      /\ assigned' = assigned
  BY DEF ChooseRestaurant, managerVars, orderVars, history
<1>5. /\ placed[a] \in Nat /\ q > placed[a]
      /\ placed'[a] = q /\ \A c \in Customers \ {a} : placed'[c] = placed[c]
  BY <1>1, BoxTypes
<1>6. /\ ~Pending(a, q) /\ ~Sent(a, q) /\ ~InProcess(a, q) /\ ~Given(a, q)
      /\ ~Settled(a, q) /\ ~Due(a, q)
  BY <1>5 DEF OnceInv, Ledger
<1>7. /\ Distinct(mailbox', Requests)
      /\ \A c, p : Pending(c, p)' => Pending(c, p) \/ (c = a /\ p = q)
  <2>1. /\ mailbox \in Seq(Message) /\ Distinct(mailbox, Requests)
        /\ ~Held(mailbox, Requests, n.customer, n.price)
    BY <1>2, <1>6, BoxTypes DEF OnceInv, Pending
  <2> QED BY <1>2, <2>1, HeldAppend DEF Pending
<1>8. \A c, p : /\ Sent(c, p)' <=> Sent(c, p)
                /\ Due(c, p)' <=> Due(c, p)
                /\ Settled(c, p)' <=> Settled(c, p)
                /\ Given(c, p)' <=> Given(c, p)
                /\ InProcess(c, p)' <=> InProcess(c, p)
  BY <1>3, <1>4 DEF Sent, Due, Settled, Given, InProcess
<1>9. ASSUME NEW c \in Customers, NEW p \in Prices PROVE Ledger(c, p)'
  <2>1. Ledger(c, p)
    BY DEF OnceInv
  <2>2. CASE c = a /\ p = q
    BY <1>5, <1>6, <1>8, <2>2 DEF Ledger, Prices
  <2>3. CASE ~(c = a /\ p = q)
    <3>1. p > placed'[c] => p > placed[c]
      BY <1>5 DEF Prices
    <3> QED BY <1>4, <1>7, <1>8, <2>1, <2>3, <3>1 DEF Ledger
  <2> QED BY <2>2, <2>3
<1>10. OneRiderPerOrder'
  BY <1>4 DEF OnceInv, OneRiderPerOrder
<1> QED BY <1>3, <1>7, <1>9, <1>10 DEF OnceInv

(* A client that writes no request, or a process that starts.              *)
LEMMA OnceClient ==
    ASSUME TypeInv, OnceInv,
           \/ mailbox' = mailbox
           \/ \E n : n.type \notin Requests /\ mailbox' = Append(mailbox, n),
           \/ outbox' = outbox
           \/ \E cl \in Clients : \E lines :
                 /\ cl # Gateway \/ lines = <<>>
                 /\ outbox' = [outbox EXCEPT ![cl] = lines],
           orders_in_process' = orders_in_process, assigned' = assigned,
           \A c, p : Settled(c, p)' => Settled(c, p),
           placed' = placed
    PROVE  OnceInv'
<1>1. outbox'[Gateway] \in {outbox[Gateway], <<>>}
  BY BoxTypes DEF Boxes
<1> QED BY <1>1, OnceAside

(* The processes that start.                                               *)
LEMMA OnceStart ==
    ASSUME TypeInv, OnceInv,
           \/ \E c \in Customers : StartCustomer(c)
           \/ \E r \in Riders : StartRider(r)
           \/ \E x \in Restaurants : StartRestaurant(x)
           \/ StartPaymentSystem
    PROVE  OnceInv'
<1>1. ASSUME NEW cl \in Clients, NEW registration,
             registration.type \notin Requests, Restarted(cl, registration)
      PROVE  OnceInv'
  <2>1. /\ mailbox' = Append(mailbox, registration) /\ placed' = placed
        /\ outbox' = [outbox EXCEPT ![cl] = <<>>]
        /\ orders_in_process' = orders_in_process
        /\ log' = log /\ assigned' = assigned
    BY <1>1 DEF Restarted, orderVars, history
  <2>2. \A c, p : Settled(c, p)' => Settled(c, p)
    BY <2>1 DEF Settled
  <2> QED BY <1>1, <2>1, <2>2, OnceClient
<1>2. ASSUME NEW c \in Customers, StartCustomer(c) PROVE OnceInv'
  BY <1>1, <1>2 DEF StartCustomer, Clients, Requests
<1>3. ASSUME NEW r \in Riders, StartRider(r) PROVE OnceInv'
  BY <1>1, <1>3 DEF StartRider, Clients, Requests
<1>4. ASSUME NEW x \in Restaurants, StartRestaurant(x) PROVE OnceInv'
  BY <1>1, <1>4 DEF StartRestaurant, Clients, Requests
<1>5. CASE StartPaymentSystem
  BY <1>1, <1>5 DEF StartPaymentSystem, Clients, Requests
<1> QED BY <1>2, <1>3, <1>4, <1>5

(* The customers, riders and restaurants at work, but for the choice of a  *)
(* restaurant.                                                             *)
LEMMA OnceWork ==
    ASSUME TypeInv, OnceInv,
           \/ \E c \in Customers : FinishDelivery(c) \/ GetRestaurants(c)
           \/ \E r \in Riders : Rider(r)
           \/ \E x \in Restaurants : ContinueOrder(x)
    PROVE  OnceInv'
<1>1. \A cl \in Customers \cup Riders : cl \in Clients /\ cl # Gateway
  BY OrderFlowAssumption DEF Clients
<1>2. ASSUME log' = log PROVE \A c, p : Settled(c, p)' => Settled(c, p)
  BY <1>2 DEF Settled
<1>3. ASSUME NEW c \in Customers, FinishDelivery(c) PROVE OnceInv'
  BY <1>1, <1>2, <1>3, OnceClient
     DEF FinishDelivery, managerVars, orderVars, history
<1>4. ASSUME NEW c \in Customers, GetRestaurants(c) PROVE OnceInv'
  <2>1. PICK n : n.type = "RegisterCustomer" /\ mailbox' = Append(mailbox, n)
    BY <1>4 DEF GetRestaurants
  <2>2. n.type \notin Requests
    BY <2>1 DEF Requests
  <2> QED BY <1>2, <1>4, <2>1, <2>2, OnceClient
      DEF GetRestaurants, managerVars, orderVars, history
<1>5. ASSUME NEW r \in Riders, DeliveryOffer(r) PROVE OnceInv'
  <2>1. \/ mailbox' = mailbox
        \/ \E n : n.type \notin Requests /\ mailbox' = Append(mailbox, n)
    BY <1>5 DEF DeliveryOffer, Requests
  <2> QED BY <1>1, <1>2, <1>5, <2>1, OnceClient
      DEF DeliveryOffer, managerVars, orderVars, clientVars, history
<1>6. ASSUME NEW r \in Riders, DeliveryOfferConfirmed(r) PROVE OnceInv'
  <2>1. PICK lines : outbox' = [outbox EXCEPT ![r] = lines]
    BY <1>6 DEF DeliveryOfferConfirmed
  <2> QED BY <1>1, <1>2, <1>6, <2>1, OnceClient
      DEF DeliveryOfferConfirmed, managerVars, orderVars, history
<1>7. ASSUME NEW r \in Riders, GoToCustomerLocation(r) PROVE OnceInv'
  <2>1. \/ mailbox' = mailbox
        \/ \E n : n.type \notin Requests /\ mailbox' = Append(mailbox, n)
    BY <1>7 DEF GoToCustomerLocation, Requests
  <2> QED BY <1>1, <1>2, <1>7, <2>1, OnceClient
      DEF GoToCustomerLocation, managerVars, orderVars, history
<1>8. ASSUME NEW x \in Restaurants, ContinueOrder(x) PROVE OnceInv'
  <2>1. PICK o \in cooking[x], answer \in {"OrderReady", "OrderCancelled"} :
          /\ mailbox' = Append(mailbox, [type |-> answer,
                                         customer |-> o.customer])
          /\ Note(IF answer = "OrderReady" THEN "ready" ELSE "cancelled",
                  o.customer, o.price)
          /\ UNCHANGED <<managerVars, outbox, clientVars, assigned>>
    BY <1>8 DEF ContinueOrder
  <2>2. \E n : n.type \notin Requests /\ mailbox' = Append(mailbox, n)
    BY <2>1 DEF Requests
  <2>3. \A c, p : Settled(c, p)' => Settled(c, p)
    BY <2>1 DEF Note, Settled
  <2> QED BY <2>1, <2>2, <2>3, OnceClient DEF managerVars, orderVars, clientVars
<1> QED BY <1>3, <1>4, <1>5, <1>6, <1>7, <1>8 DEF Rider

(* The payment system: a line it answers is a request again, and one it    *)
(* executes settles an order that has left the table.                      *)
LEMMA OncePaymentSystem ==
    ASSUME TypeInv, OnceInv, PaymentSystem
    PROVE  OnceInv'
<1> DEFINE line == Head(outbox[Gateway])
           lines == outbox[Gateway]
<1>1. /\ lines \in Seq(Line) /\ lines # <<>> /\ line \in Line
      /\ outbox'[Gateway] = Tail(lines)
  <2>1. outbox[Gateway] # <<>> /\ outbox' = [outbox EXCEPT ![Gateway] = Tail(@)]
    BY DEF PaymentSystem, ExecuteAutorization, ExecutePayment, Taken
  <2>2. outbox \in Boxes /\ Gateway \in Clients /\ outbox[Gateway] \in Seq(Line)
    BY BoxTypes
  <2> QED BY <2>1, <2>2 DEF Boxes
<1>2. /\ orders_in_process' = orders_in_process /\ assigned' = assigned
      /\ placed' = placed
  BY DEF PaymentSystem, ExecuteAutorization, ExecutePayment, managerVars,
     orderVars, clientVars
<1>3. PICK a \in Customers, q \in Prices,
           answer \in Requests \cup {"PaymentExecuted"} :
          /\ a = line.customer /\ q = line.price
          /\ mailbox' = Append(mailbox, [line EXCEPT !.type = answer])
          /\ [line EXCEPT !.type = answer].customer = a
          /\ [line EXCEPT !.type = answer].price = q
          /\ [line EXCEPT !.type = answer].type = answer
          /\ \/ /\ line.type = "AuthorizePayment" /\ answer \in Requests
                /\ \A c, p : Settled(c, p)' => Settled(c, p)
             \/ /\ line.type = "ExecutePayment"
                /\ answer = "PaymentExecuted"
                /\ \A c, p : Settled(c, p)' =>
                       Settled(c, p) \/ (c = a /\ p = q)
  <2>1. CASE ExecuteAutorization
    <3>1. PICK answer \in {"PaymentAuthorized", "PaymentDenied"} :
              /\ mailbox' = Append(mailbox, [line EXCEPT !.type = answer])
              /\ \/ Note("authorized", line.customer, line.price)
                 \/ log' = log
      BY <2>1 DEF ExecuteAutorization
    <3>2. line \in [type : {"AuthorizePayment"}, customer : Customers,
                    price : Prices, restaurant : Restaurants]
      BY <1>1, <2>1, LineFields DEF ExecuteAutorization, Taken
    <3>3. \A c, p : Settled(c, p)' => Settled(c, p)
      BY <3>1 DEF Note, Settled
    <3>4. answer \in Requests
      BY DEF Requests
    <3> HIDE DEF line
    <3>5. /\ line.customer \in Customers /\ line.price \in Prices
          /\ line.type = "AuthorizePayment"
          /\ [line EXCEPT !.type = answer].customer = line.customer
          /\ [line EXCEPT !.type = answer].price = line.price
          /\ [line EXCEPT !.type = answer].type = answer
      BY <3>2
    <3> QED BY <3>1, <3>3, <3>4, <3>5
  <2>2. CASE ExecutePayment
    <3>1. /\ mailbox' = Append(mailbox, [line EXCEPT !.type = "PaymentExecuted"])
          /\ Note("charged", line.customer, line.price)
      BY <2>2 DEF ExecutePayment
    <3>2. line \in [type : {"ExecutePayment"}, customer : Customers,
                    price : Prices]
      BY <1>1, <2>2, LineFields DEF ExecutePayment, Taken
    <3> HIDE DEF line
    <3>3. \A c, p : Settled(c, p)' =>
              Settled(c, p) \/ (c = line.customer /\ p = line.price)
      BY <3>1 DEF Note, Settled
    <3>4. /\ line.customer \in Customers /\ line.price \in Prices
          /\ line.type = "ExecutePayment"
          /\ [line EXCEPT !.type = "PaymentExecuted"].customer = line.customer
          /\ [line EXCEPT !.type = "PaymentExecuted"].price = line.price
          /\ [line EXCEPT !.type = "PaymentExecuted"].type = "PaymentExecuted"
      BY <3>2
    <3> QED BY <3>1, <3>3, <3>4
  <2> QED BY <2>1, <2>2 DEF PaymentSystem
<1>4. PICK n : /\ mailbox' = Append(mailbox, n) /\ n.type = answer
               /\ n.customer = a /\ n.price = q
  BY <1>3
<1>5. Ledger(a, q) /\ mailbox \in Seq(Message) /\ Distinct(mailbox, Requests)
  BY BoxTypes DEF OnceInv
<1>6. \A c, p : /\ Given(c, p)' <=> Given(c, p)
                /\ InProcess(c, p)' <=> InProcess(c, p)
  BY <1>2 DEF Given, InProcess
<1>7. /\ Distinct(outbox'[Gateway], {"AuthorizePayment"})
      /\ \A c, p : (Sent(c, p)' => Sent(c, p)) /\ (Due(c, p)' => Due(c, p))
      /\ line.type = "AuthorizePayment" => Sent(a, q) /\ ~Sent(a, q)'
      /\ line.type = "ExecutePayment" => Due(a, q)
  <2>1. Distinct(lines, {"AuthorizePayment"})
    BY DEF OnceInv
  <2> HIDE DEF lines
  <2>2. /\ Distinct(Tail(lines), {"AuthorizePayment"})
        /\ \A c, p : Held(Tail(lines), {"AuthorizePayment"}, c, p) =>
               Held(lines, {"AuthorizePayment"}, c, p)
        /\ Head(lines).type = "AuthorizePayment" =>
             /\ Held(lines, {"AuthorizePayment"}, Head(lines).customer,
                     Head(lines).price)
             /\ ~Held(Tail(lines), {"AuthorizePayment"}, Head(lines).customer,
                      Head(lines).price)
    BY <1>1, <2>1, HeldTail
  <2>3. /\ \A c, p : Held(Tail(lines), {"ExecutePayment"}, c, p) =>
               Held(lines, {"ExecutePayment"}, c, p)
        /\ Head(lines).type = "ExecutePayment" =>
               Held(lines, {"ExecutePayment"}, Head(lines).customer,
                    Head(lines).price)
    BY <1>1, HeldTail
  <2> QED BY <1>1, <1>3, <2>2, <2>3 DEF Sent, Due, lines
<1>8. OneRiderPerOrder'
  BY <1>2 DEF OnceInv, OneRiderPerOrder
<1> HIDE DEF line, lines
<1>9. CASE /\ line.type = "AuthorizePayment" /\ answer \in Requests
           /\ \A c, p : Settled(c, p)' => Settled(c, p)
  <2>1. /\ ~Pending(a, q) /\ ~InProcess(a, q) /\ ~Given(a, q)
        /\ ~Settled(a, q) /\ ~Due(a, q) /\ ~(q > placed[a]) /\ ~Sent(a, q)'
    BY <1>5, <1>7, <1>9 DEF Ledger
  <2>2. /\ Distinct(mailbox', Requests)
        /\ \A c, p : Pending(c, p)' => Pending(c, p) \/ (c = a /\ p = q)
    BY <1>4, <1>5, <2>1, HeldAppend DEF Pending
  <2>3. ASSUME NEW c \in Customers, NEW p \in Prices PROVE Ledger(c, p)'
    <3>1. CASE c = a /\ p = q
      BY <1>2, <1>6, <1>7, <1>9, <2>1, <3>1 DEF Ledger
    <3>2. CASE ~(c = a /\ p = q)
      BY <1>2, <1>7, <1>9, <2>2, <3>2, LedgerKept DEF OnceInv
    <3> QED BY <3>1, <3>2
  <2> QED BY <1>7, <1>8, <2>2, <2>3 DEF OnceInv
<1>10. CASE /\ line.type = "ExecutePayment" /\ answer = "PaymentExecuted"
            /\ \A c, p : Settled(c, p)' => Settled(c, p) \/ (c = a /\ p = q)
  <2>1. /\ ~Pending(a, q) /\ ~Sent(a, q) /\ ~InProcess(a, q)
        /\ ~(q > placed[a])
    BY <1>5, <1>7, <1>10 DEF Ledger
  <2>2. n.type \notin Requests
    BY <1>4, <1>10 DEF Requests
  <2>3. /\ Distinct(mailbox', Requests)
        /\ \A c, p : Pending(c, p)' => Pending(c, p)
    BY <1>4, <1>5, <2>2, HeldAppend DEF Pending
  <2>4. ASSUME NEW c \in Customers, NEW p \in Prices PROVE Ledger(c, p)'
    <3>1. CASE c = a /\ p = q
      BY <1>2, <1>6, <1>7, <2>1, <2>3, <3>1 DEF Ledger
    <3>2. CASE ~(c = a /\ p = q)
      BY <1>2, <1>7, <1>10, <2>3, <3>2, LedgerKept DEF OnceInv
    <3> QED BY <3>1, <3>2
  <2> QED BY <1>7, <1>8, <2>3, <2>4 DEF OnceInv
<1> QED BY <1>3, <1>9, <1>10

----------------------------------------------------------------------------
(* The theorems.                                                           *)

(* No order is at two places at the start, and no step brings one there.   *)
LEMMA OnceInit == Init => OnceInv
<1> SUFFICES ASSUME Init PROVE OnceInv
  OBVIOUS
<1>1. /\ mailbox = <<>> /\ outbox[Gateway] = <<>> /\ log = {} /\ assigned = {}
      /\ \A c \in Customers : orders_in_process[c] = None
  BY DEF Init, Clients
<1>2. \A types, c, p : ~Held(<<>>, types, c, p)
  BY DEF Held
<1>3. \A types : Distinct(<<>>, types)
  BY DEF Distinct
<1>4. \A c \in Customers, p \in Prices : Ledger(c, p)
  BY <1>1, <1>2 DEF Ledger, Pending, Sent, Due, InProcess, Given, Settled
<1>5. OneRiderPerOrder
  BY <1>1 DEF OneRiderPerOrder
<1> QED BY <1>1, <1>3, <1>4, <1>5 DEF OnceInv

(* Every step keeps what the ledgers say.                                  *)
LEMMA OnceStep == TypeInv /\ OnceInv /\ [Next]_vars => OnceInv'
<1> SUFFICES ASSUME TypeInv, OnceInv, [Next]_vars PROVE OnceInv'
  OBVIOUS
<1>1. CASE Next
  BY <1>1, OnceHandle, OnceStart, OnceWork, OnceChoose, OncePaymentSystem
     DEF Next, Customer
<1>2. CASE UNCHANGED vars
  <2>1. /\ mailbox' = mailbox /\ outbox' = outbox /\ log' = log
        /\ orders_in_process' = orders_in_process /\ assigned' = assigned
        /\ placed' = placed
    BY <1>2 DEF vars, orderVars, clientVars, history
  <2>2. \A c, p : Settled(c, p)' => Settled(c, p)
    BY <2>1 DEF Settled
  <2> QED BY <2>1, <2>2, OnceClient
<1> QED BY <1>1, <1>2

(* OnceInv, the strengthening of OneRiderPerOrder, holds always.           *)
LEMMA SpecOnceInv == Spec => []OnceInv
BY OnceInit, OnceStep, SpecTypeInv, PTL DEF Spec

(* Of the riders that accept the offer for one order, however late and in  *)
(* whatever order, DeliveryOfferAccepted gives it to one at most.          *)
THEOREM OneRiderCorrect == Spec => []OneRiderPerOrder
<1>1. OnceInv => OneRiderPerOrder
  BY DEF OnceInv
<1> QED BY <1>1, SpecOnceInv, PTL

(* An order that was charged or refused is not in the table: the handlers  *)
(* remove it before they have it charged, and enter none twice.            *)
THEOREM SettledCorrect == Spec => []SettledOrderIsGone
<1>1. OnceInv => SettledOrderIsGone
  BY DEF OnceInv, Ledger, InProcess, Settled, SettledOrderIsGone
<1> QED BY <1>1, SpecOnceInv, PTL

(* No step replaces the rider of an order in the table.                    *)
LEMMA RiderStays ==
    ASSUME TypeInv, OnceInv, [Next]_vars, NEW c \in Customers,
           orders_in_process[c] # None, orders_in_process'[c] # None,
           orders_in_process[c].rider_id # None,
           orders_in_process'[c].order_price = orders_in_process[c].order_price
    PROVE  orders_in_process'[c].rider_id = orders_in_process[c].rider_id
<1> DEFINE m == Head(mailbox)
<1>1. CASE Handle /\ m.type \notin {"OrderRequest", "DeliveryOfferAccepted"}
  BY <1>1, HandleQuiet
<1>2. CASE Handle /\ m.type = "OrderRequest"
  <2>1. mailbox # <<>> /\ m.type \in Requests
    BY <1>2 DEF Handle, Requests
  <2>2. PICK a \in Customers, q \in Prices :
            a = m.customer /\ q = m.price /\ Pending(a, q)
    BY <2>1, RequestTaken
  <2>3. ~InProcess(a, q)
    BY <2>2 DEF OnceInv, Ledger
  <2> QED BY <1>2, <2>2, <2>3, RequestEntered DEF InProcess
<1>3. CASE Handle /\ m.type = "DeliveryOfferAccepted"
  BY <1>3, OfferAccepted
<1>4. CASE orders_in_process' = orders_in_process
  BY <1>4
<1>5. CASE Next /\ ~Handle
  BY <1>4, <1>5
     DEF Next, StartCustomer, StartRider, StartRestaurant, StartPaymentSystem,
         Restarted, Customer, ChooseRestaurant, FinishDelivery, GetRestaurants,
         Rider, DeliveryOffer, DeliveryOfferConfirmed, GoToCustomerLocation,
         ContinueOrder, PaymentSystem, ExecuteAutorization, ExecutePayment,
         managerVars, orderVars
<1>6. CASE UNCHANGED vars
  BY <1>4, <1>6 DEF vars, orderVars
<1> QED BY <1>1, <1>2, <1>3, <1>5, <1>6

(* The rider that an order is given to keeps it until it leaves the table: *)
(* an acceptance that comes later finds the order taken, and the order is  *)
(* not entered again.                                                      *)
THEOREM AssignmentCorrect == Spec => AssignmentIsFinal
<1>1. TypeInv /\ OnceInv /\ [Next]_vars =>
          [\A c \in Customers :
             LET old == orders_in_process[c]
                 new == orders_in_process'[c]
             IN  /\ old # None /\ new # None
                 /\ old.rider_id # None /\ new.order_price = old.order_price
                 => new.rider_id = old.rider_id]_vars
  BY RiderStays
<1> QED BY <1>1, SpecTypeInv, SpecOnceInv, PTL DEF Spec, AssignmentIsFinal
=============================================================================
